---- MODULE Spec2Model ----
(***************************************************************************)
(* Energy telemetry pipeline of the wall-dashboard server (src/server.js): *)
(* gateway polling, day baselines, alert evaluation, SSE fan-out and the   *)
(* poll scheduler.  One action per handler or per segment of a handler     *)
(* between two awaits (the Node event loop runs each segment atomically).  *)
(* Times are milliseconds since the epoch; instant powers arrive from the  *)
(* gateway in tenths of a watt and are rounded as the code rounds them.    *)
(***************************************************************************)
EXTENDS Integers, Sequences, FiniteSets, TLC

VARIABLES
  now,                  \* Date.now()
  nextTick,             \* due time of the 10 s poll timer
  conns,                \* open stream connections (close event not yet fired)
  broken,               \* open connections whose write throws
  sseClients,           \* the sseClients array
  alerts,               \* the alerts array
  alertsFile,           \* last snapshot written to ALERTS_FILE
  settingsAlerts,       \* settings.alerts
  cachedPowerwall,      \* cachedData.powerwall
  lastUpdatePowerwall,  \* cachedData.lastUpdate.powerwall
  cachedTemps,          \* cachedData.temps
  lastUpdateTemps,      \* cachedData.lastUpdate.temps
  history,              \* the history array
  historyFile,          \* last snapshot written to HISTORY_FILE
  samples,              \* rows of table power_samples
  baselines,            \* table daily_baselines: date key -> row
  fetches,              \* fetchPowerwallData executions in flight, per slot
  httpResponse,         \* last response of GET /api/powerwall
  sent,                 \* observation: writes of the last handler, in order
  alertHist,            \* observation: per alert kind, what happened to it
  deltaLog,             \* observation: the last two day-delta computations
  firstCum,             \* observation: counters of the first poll per date
  proc,                 \* the Node process: "running" or "exited"
  nextHour,             \* due time of the hourly roll-up timer
  analytics,            \* the analytics array
  analyticsFile,        \* last snapshot written to ANALYTICS_FILE
  faultLog,             \* observation: the exceptions thrown so far, in order
  codeVersion           \* the codeVersion object

vars == <<now, nextTick, conns, broken, sseClients, alerts, alertsFile,
          settingsAlerts, cachedPowerwall, lastUpdatePowerwall, cachedTemps,
          lastUpdateTemps, history, historyFile, samples, baselines, fetches,
          httpResponse, sent, alertHist, deltaLog, firstCum, proc, nextHour,
          analytics, analyticsFile, faultLog, codeVersion>>

\* an absent value (null, undefined, no row) is the empty sequence, a present
\* one the sequence of it
None == <<>>
Some(x) == <<x>>

(***************************************************************************)
(* Program constants                                                       *)
(***************************************************************************)
PollIntervalMs == 10000
GatewayTimeoutMs == 5000
PowerwallFreshMs == 15000
TempsFreshMs == 600000
MsPerDay == 86400000
HistoryKeptMs == 86400000
AlertsKept == 100
DeadBandW == 10
HourMs == 3600000
AnalyticsKept == 720

\* soeRes.data.percentage is a float: a state of energy is carried in
\* tenths of a percent
SoeScale == 10

\* p percent as a state of energy
Pct(p) == p * SoeScale

\* four timed-out requests in sequence: login, aggregates, soe, extra stats
FetchBudgetMs == 4 * GatewayTimeoutMs

AlertIds == {"battery-low", "battery-high", "grid-down", "high-load",
             "high-temp", "low-temp"}

(***************************************************************************)
(* Arithmetic as JavaScript computes it                                    *)
(***************************************************************************)
Max(a, b) == IF a >= b THEN a ELSE b
Min(a, b) == IF a <= b THEN a ELSE b

\* Math.round(num / den) for den > 0: halves round towards +infinity
MathRoundDiv(num, den) == (2 * num + den) \div (2 * den)

\* Math.round of a reading given in tenths
MathRoundTenths(x) == MathRoundDiv(x, 10)

\* (wh / 1e6).toFixed(1), as a number of tenths
ToFixed1Mega(wh) == MathRoundDiv(wh, 100000)

\* new Date().toISOString().slice(0, 10): the UTC calendar day
TodayKey(t) == t \div MsPerDay

\* now.toISOString() as the pair of its date part and its time part
ToISOString(t) == <<t \div MsPerDay, t % MsPerDay>>

\* the percentage without the clamp to 0..100
SelfPoweredPercentUnclamped(loadPower, gridPower) ==
  IF loadPower > 0
    THEN MathRoundDiv((loadPower - Max(0, gridPower)) * 100, loadPower)
    ELSE 0

SelfPoweredPercent(loadPower, gridPower) ==
  IF loadPower > 0
    THEN LET gridSupplied == Max(0, gridPower)
             pct == MathRoundDiv((loadPower - gridSupplied) * 100, loadPower)
         IN  Max(0, Min(100, pct))
    ELSE 0

\* a dead-band that excludes its bounds: +-10 W already count as flow
BatteryStatusInclusive(batteryPower) ==
  IF batteryPower >= DeadBandW THEN "discharging"
  ELSE IF batteryPower <= -DeadBandW THEN "charging"
  ELSE "standby"

BatteryStatus(batteryPower) ==
  IF batteryPower > DeadBandW THEN "discharging"
  ELSE IF batteryPower < -DeadBandW THEN "charging"
  ELSE "standby"

(***************************************************************************)
(* Sequences                                                               *)
(***************************************************************************)
Range(s) == {s[i] : i \in 1..Len(s)}

\* Array.prototype.slice(-n) for n > 0
SliceLast(s, n) == IF Len(s) <= n THEN s ELSE SubSeq(s, Len(s) - n + 1, Len(s))

\* Array.prototype.indexOf, 1-based, 0 when absent
IndexOf(s, x) ==
  IF x \in Range(s) THEN CHOOSE i \in 1..Len(s) : s[i] = x /\ \A j \in 1..(i - 1) : s[j] # x
  ELSE 0

CountId(s, id) == Cardinality({i \in 1..Len(s) : s[i].id = id})

(***************************************************************************)
(* Broadcast fan-out                                                       *)
(***************************************************************************)
\* a splice that removes the first element whatever the index
SpliceFirst(clients, i) == Tail(clients)

\* sseClients.splice(index, 1)
Splice(clients, i) ==
  [k \in 1..(Len(clients) - 1) |-> IF k < i THEN clients[k] ELSE clients[k + 1]]

\* The forEach of broadcastUpdate.  forEach fixes the number of indices to
\* visit when it starts (len0) and skips an index that is no longer in the
\* array; index i always names the live array.  st collects the outcome.
RECURSIVE ForEachWrite(_, _, _, _, _)
ForEachWrite(clients, dead, i, len0, st) ==
  IF i > len0 \/ i > Len(clients)
    THEN [clients |-> clients, delivered |-> st.delivered, failed |-> st.failed]
  ELSE IF clients[i] \in dead
    THEN ForEachWrite(Splice(clients, i), dead, i + 1, len0,
                      [st EXCEPT !.failed = @ \cup {clients[i]}])
  ELSE ForEachWrite(clients, dead, i + 1, len0,
                    [st EXCEPT !.delivered = Append(@, clients[i])])

\* broadcastUpdate(data): the array afterwards and a record of what was written
BroadcastUpdate(clients, dead, event) ==
  LET r == ForEachWrite(clients, dead, 1, Len(clients),
                        [delivered |-> <<>>, failed |-> {}])
  IN  [clients |-> r.clients,
       rec |-> [via |-> "broadcast", event |-> event, before |-> clients,
                dead |-> dead, after |-> r.clients,
                delivered |-> r.delivered, failed |-> r.failed]]

(***************************************************************************)
(* Alert engine                                                            *)
(***************************************************************************)
\* a threshold that is missing from settings.alerts is undefined, and every
\* comparison with undefined is false
HasThreshold(st, k) == k \in DOMAIN st

Alert(id, type, severity, value, threshold, t) ==
  [id |-> id, type |-> type, severity |-> severity,
   message |-> <<value, threshold>>, timestamp |-> t]

\* a newAlerts array whose grid check does not look at the gridDown flag
NewAlertsFlagIgnored(data, temps, st, t) ==
  (IF HasThreshold(st, "batteryLow") /\ data.battery.soe <= Pct(st.batteryLow)
     THEN <<Alert("battery-low", "warning", "high", data.battery.soe, st.batteryLow, t)>>
     ELSE <<>>)
  \o
  (IF HasThreshold(st, "batteryHigh") /\ data.battery.soe >= Pct(st.batteryHigh)
     THEN <<Alert("battery-high", "info", "low", data.battery.soe, st.batteryHigh, t)>>
     ELSE <<>>)
  \o
  (IF data.grid.power <= 0
     THEN <<Alert("grid-down", "error", "critical", 0, 0, t)>>
     ELSE <<>>)
  \o
  (IF HasThreshold(st, "highLoad") /\ data.load.power >= st.highLoad
     THEN <<Alert("high-load", "warning", "medium", data.load.power, st.highLoad, t)>>
     ELSE <<>>)
  \o
  (IF temps # None /\ HasThreshold(st, "highTemp") /\ temps[1].inside >= st.highTemp
     THEN <<Alert("high-temp", "warning", "high", temps[1].inside, st.highTemp, t)>>
     ELSE <<>>)
  \o
  (IF temps # None /\ HasThreshold(st, "lowTemp") /\ temps[1].inside <= st.lowTemp
     THEN <<Alert("low-temp", "warning", "medium", temps[1].inside, st.lowTemp, t)>>
     ELSE <<>>)

\* the newAlerts array of checkAlerts, in the order the code pushes them
NewAlerts(data, temps, st, t) ==
  (IF HasThreshold(st, "batteryLow") /\ data.battery.soe <= Pct(st.batteryLow)
     THEN <<Alert("battery-low", "warning", "high", data.battery.soe, st.batteryLow, t)>>
     ELSE <<>>)
  \o
  (IF HasThreshold(st, "batteryHigh") /\ data.battery.soe >= Pct(st.batteryHigh)
     THEN <<Alert("battery-high", "info", "low", data.battery.soe, st.batteryHigh, t)>>
     ELSE <<>>)
  \o
  (IF HasThreshold(st, "gridDown") /\ st.gridDown /\ data.grid.power <= 0
     THEN <<Alert("grid-down", "error", "critical", 0, 0, t)>>
     ELSE <<>>)
  \o
  (IF HasThreshold(st, "highLoad") /\ data.load.power >= st.highLoad
     THEN <<Alert("high-load", "warning", "medium", data.load.power, st.highLoad, t)>>
     ELSE <<>>)
  \o
  (IF temps # None /\ HasThreshold(st, "highTemp") /\ temps[1].inside >= st.highTemp
     THEN <<Alert("high-temp", "warning", "high", temps[1].inside, st.highTemp, t)>>
     ELSE <<>>)
  \o
  (IF temps # None /\ HasThreshold(st, "lowTemp") /\ temps[1].inside <= st.lowTemp
     THEN <<Alert("low-temp", "warning", "medium", temps[1].inside, st.lowTemp, t)>>
     ELSE <<>>)

\* alerts.find(a => a.id === alert.id)
FindAlert(list, id) == \E i \in 1..Len(list) : list[i].id = id

\* a forEach callback that pushes every candidate, present or not
AddAlertAlways(a, dead, acc) ==
  LET b == BroadcastUpdate(acc.clients, dead, [type |-> "alert", data |-> a])
  IN  [alerts |-> Append(acc.alerts, a), clients |-> b.clients,
       sent |-> Append(acc.sent, b.rec),
       hist |-> [acc.hist EXCEPT ![a.id] = Append(@, "raised")]]

\* a forEach callback that broadcasts a candidate it does not push
AddAlertLoud(a, dead, acc) ==
  LET b == BroadcastUpdate(acc.clients, dead, [type |-> "alert", data |-> a])
  IN  IF ~FindAlert(acc.alerts, a.id)
        THEN [alerts |-> Append(acc.alerts, a), clients |-> b.clients,
              sent |-> Append(acc.sent, b.rec),
              hist |-> [acc.hist EXCEPT ![a.id] = Append(@, "raised")]]
        ELSE [alerts |-> acc.alerts, clients |-> b.clients,
              sent |-> Append(acc.sent, b.rec),
              hist |-> [acc.hist EXCEPT ![a.id] = Append(@, "suppressed")]]

\* The callback of newAlerts.forEach: push and broadcast the candidate if no
\* entry of the list has its id.  acc = [alerts, clients, sent, hist].
AddAlert(a, dead, acc) ==
  IF ~FindAlert(acc.alerts, a.id)
    THEN LET b == BroadcastUpdate(acc.clients, dead, [type |-> "alert", data |-> a])
         IN  [alerts |-> Append(acc.alerts, a), clients |-> b.clients,
              sent |-> Append(acc.sent, b.rec),
              hist |-> [acc.hist EXCEPT ![a.id] = Append(@, "raised")]]
    ELSE [acc EXCEPT !.hist[a.id] = Append(@, "suppressed")]

\* newAlerts.forEach(...)
RECURSIVE AddNewAlerts(_, _, _)
AddNewAlerts(cands, dead, acc) ==
  IF cands = <<>> THEN acc
  ELSE AddNewAlerts(Tail(cands), dead, AddAlert(Head(cands), dead, acc))

\* a checkAlerts that drops the entries whose condition no longer holds
CheckAlertsResolving(data, temps, st, t, list, clients, dead, hist) ==
  LET cands == NewAlerts(data, temps, st, t)
      Breached(a) == \E i \in 1..Len(cands) : cands[i].id = a.id
      r == AddNewAlerts(cands, dead,
                        [alerts |-> SelectSeq(list, Breached), clients |-> clients,
                         sent |-> <<>>, hist |-> hist])
  IN  [r EXCEPT !.alerts = SliceLast(@, AlertsKept)]

\* a checkAlerts that evaluates nothing without a temperature reading
CheckAlertsNeedsTemps(data, temps, st, t, list, clients, dead, hist) ==
  LET cands == IF temps = None THEN <<>> ELSE NewAlerts(data, temps, st, t)
      r == AddNewAlerts(cands, dead,
                        [alerts |-> list, clients |-> clients,
                         sent |-> <<>>, hist |-> hist])
  IN  [r EXCEPT !.alerts = SliceLast(@, AlertsKept)]

\* a checkAlerts whose trim keeps the first 100 entries
CheckAlertsKeepsFirst(data, temps, st, t, list, clients, dead, hist) ==
  LET r == AddNewAlerts(NewAlerts(data, temps, st, t), dead,
                        [alerts |-> list, clients |-> clients,
                         sent |-> <<>>, hist |-> hist])
  IN  [r EXCEPT !.alerts = SubSeq(@, 1, Min(Len(@), AlertsKept))]

\* checkAlerts(powerwallData, tempsData), with the trim to the last 100
CheckAlerts(data, temps, st, t, list, clients, dead, hist) ==
  LET r == AddNewAlerts(NewAlerts(data, temps, st, t), dead,
                        [alerts |-> list, clients |-> clients,
                         sent |-> <<>>, hist |-> hist])
  IN  [r EXCEPT !.alerts = SliceLast(@, AlertsKept)]

(***************************************************************************)
(* Telemetry fetcher: the synchronous tail of fetchPowerwallData           *)
(***************************************************************************)
\* getBaseline.get(todayKey)
GetBaseline(tbl, key) == IF key \in DOMAIN tbl THEN Some(tbl[key]) ELSE None

\* insertBaseline.run(...): INSERT OR REPLACE on the primary key date
InsertBaseline(tbl, key, row) ==
  [k \in DOMAIN tbl \cup {key} |-> IF k = key THEN row ELSE tbl[k]]

\* a baseline row that starts the day's counters at zero
BaselineRowZero(agg) ==
  [solar_exported_wh |-> 0, battery_exported_wh |-> 0,
   battery_imported_wh |-> 0, grid_imported_wh |-> 0,
   grid_exported_wh |-> 0, load_imported_wh |-> 0]

\* the row insertBaseline.run writes: the counters of this answer
BaselineRow(agg) ==
  [solar_exported_wh |-> agg.solarExp, battery_exported_wh |-> agg.batteryExp,
   battery_imported_wh |-> agg.batteryImp, grid_imported_wh |-> agg.siteImp,
   grid_exported_wh |-> agg.siteExp, load_imported_wh |-> agg.loadImp]

\* an insertBaseline.run(...) that is not guarded by the lookup
TrackBaselineAlways(tbl, key, agg) == InsertBaseline(tbl, key, BaselineRow(agg))

\* if (!baseline) { insertBaseline.run(...) }
TrackBaseline(tbl, key, agg) ==
  IF GetBaseline(tbl, key) = None THEN InsertBaseline(tbl, key, BaselineRow(agg))
  ELSE tbl

\* a day-delta that is not clamped
DayDeltaUnclamped(cum, base) == cum - base

\* Math.max(0, cum - (baseline.x || 0))
DayDelta(cum, base) == Max(0, cum - base)

DayDeltas(agg, row) ==
  [daySolar |-> DayDelta(agg.solarExp, row.solar_exported_wh),
   dayBattery |-> DayDelta(agg.batteryExp, row.battery_exported_wh),
   dayGrid |-> DayDelta(agg.siteImp, row.grid_imported_wh),
   dayLoad |-> DayDelta(agg.loadImp, row.load_imported_wh)]

\* a breakdown whose percentages are cut off instead of rounded
DailyBreakdownTruncated(d) ==
  IF d.dayLoad > 0
    THEN [solarPct |-> (d.daySolar * 100) \div d.dayLoad,
          batteryPct |-> (d.dayBattery * 100) \div d.dayLoad,
          gridPct |-> (d.dayGrid * 100) \div d.dayLoad,
          solarKwh |-> ToFixed1Mega(d.daySolar),
          batteryKwh |-> ToFixed1Mega(d.dayBattery),
          gridKwh |-> ToFixed1Mega(d.dayGrid),
          loadKwh |-> ToFixed1Mega(d.dayLoad)]
    ELSE [solarPct |-> 0, batteryPct |-> 0, gridPct |-> 0, solarKwh |-> 0,
          batteryKwh |-> 0, gridKwh |-> 0, loadKwh |-> 0]

DailyBreakdown(d) ==
  IF d.dayLoad > 0
    THEN [solarPct |-> MathRoundDiv(d.daySolar * 100, d.dayLoad),
          batteryPct |-> MathRoundDiv(d.dayBattery * 100, d.dayLoad),
          gridPct |-> MathRoundDiv(d.dayGrid * 100, d.dayLoad),
          solarKwh |-> ToFixed1Mega(d.daySolar),
          batteryKwh |-> ToFixed1Mega(d.dayBattery),
          gridKwh |-> ToFixed1Mega(d.dayGrid),
          loadKwh |-> ToFixed1Mega(d.dayLoad)]
    ELSE [solarPct |-> 0, batteryPct |-> 0, gridPct |-> 0, solarKwh |-> 0,
          batteryKwh |-> 0, gridKwh |-> 0, loadKwh |-> 0]

\* the day's percentage without the clamp to 0..100
DailySelfPoweredUnclamped(d, instant) ==
  IF d.dayLoad > 0
    THEN MathRoundDiv((d.daySolar + d.dayBattery) * 100, d.dayLoad)
    ELSE instant

DailySelfPowered(d, instant) ==
  IF d.dayLoad > 0
    THEN Max(0, Min(100, MathRoundDiv((d.daySolar + d.dayBattery) * 100, d.dayLoad)))
    ELSE instant

\* a system block without the || defaults: a field that is undefined is
\* left out of the JSON
SystemInfoNoDefaults(extras) ==
  IF extras = None
    THEN [gridConnected |-> FALSE]
    ELSE [gridConnected |-> extras[1].grid_status = "SystemGridConnected",
          gridServices |-> extras[1].grid_services_active,
          operationMode |-> extras[1].real_mode,
          backupReserve |-> extras[1].backup_reserve_percent,
          nominalFull |-> MathRoundDiv(extras[1].nominal_full_pack_energy, 1000),
          energyRemaining |-> MathRoundDiv(extras[1].nominal_energy_remaining, 1000),
          maxChargePower |-> MathRoundDiv(extras[1].max_charge_power, 1000),
          maxDischargePower |-> MathRoundDiv(extras[1].max_discharge_power, 1000),
          firmwareVersion |-> extras[1].version]

\* The system block.  The three extra reads are awaited together and their
\* answers are assigned after the await, so either all three are there or
\* systemStatus, gridStatus and operation are all {} (extras = None) and
\* every field takes its || default.
SystemInfo(extras) ==
  IF extras = None
    THEN [gridConnected |-> FALSE, gridServices |-> FALSE,
          operationMode |-> "unknown", backupReserve |-> 0,
          nominalFull |-> 0, energyRemaining |-> 0,
          maxChargePower |-> 0, maxDischargePower |-> 0,
          firmwareVersion |-> "unknown"]
    ELSE [gridConnected |-> extras[1].grid_status = "SystemGridConnected",
          gridServices |-> extras[1].grid_services_active,
          operationMode |-> extras[1].real_mode,
          backupReserve |-> extras[1].backup_reserve_percent,
          nominalFull |-> MathRoundDiv(extras[1].nominal_full_pack_energy, 1000),
          energyRemaining |-> MathRoundDiv(extras[1].nominal_energy_remaining, 1000),
          maxChargePower |-> MathRoundDiv(extras[1].max_charge_power, 1000),
          maxDischargePower |-> MathRoundDiv(extras[1].max_discharge_power, 1000),
          firmwareVersion |-> extras[1].version]

\* a reading that is handed out before its derived blocks are attached
PowerwallDataPartial(agg, soe, extras, row, t) ==
  LET batteryPower == MathRoundTenths(agg.batteryP)
  IN  [timestamp |-> t,
       grid |-> [power |-> MathRoundTenths(agg.siteP)],
       battery |-> [power |-> batteryPower, soe |-> soe,
                    status |-> BatteryStatus(batteryPower)],
       load |-> [power |-> MathRoundTenths(agg.loadP)],
       solar |-> [power |-> MathRoundTenths(agg.solarP)]]

\* the powerwallData object, built from the day's baseline row
PowerwallData(agg, soe, extras, row, t) ==
  LET solarPower == MathRoundTenths(agg.solarP)
      batteryPower == MathRoundTenths(agg.batteryP)
      loadPower == MathRoundTenths(agg.loadP)
      gridPower == MathRoundTenths(agg.siteP)
      d == DayDeltas(agg, row)
  IN  [timestamp |-> t,
       grid |-> [power |-> gridPower],
       battery |-> [power |-> batteryPower, soe |-> soe,
                    status |-> BatteryStatus(batteryPower)],
       load |-> [power |-> loadPower],
       solar |-> [power |-> solarPower],
       selfPoweredPercent |->
         DailySelfPowered(d, SelfPoweredPercent(loadPower, gridPower)),
       dailyBreakdown |-> DailyBreakdown(d),
       system |-> SystemInfo(extras)]

\* a tail that computes the deltas against the counters of its own answer
FetchTailOwnCounters(tbl, agg, soe, extras, t) ==
  LET key == TodayKey(t)
      tbl2 == TrackBaseline(tbl, key, agg)
      row == BaselineRow(agg)
  IN  [baselines |-> tbl2,
       data |-> PowerwallData(agg, soe, extras, row, t),
       delta |-> [date |-> key, cum |-> BaselineRow(agg), base |-> row,
                  created |-> GetBaseline(tbl, key) = None,
                  d |-> DayDeltas(agg, row)]]

\* lines 1100-1199 once all reads have answered: the table afterwards, the
\* reading, and what the day-delta step read and computed
FetchTail(tbl, agg, soe, extras, t) ==
  LET key == TodayKey(t)
      tbl2 == TrackBaseline(tbl, key, agg)
      row == GetBaseline(tbl2, key)[1]
  IN  [baselines |-> tbl2,
       data |-> PowerwallData(agg, soe, extras, row, t),
       delta |-> [date |-> key, cum |-> BaselineRow(agg), base |-> row,
                  created |-> GetBaseline(tbl, key) = None,
                  d |-> DayDeltas(agg, row)]]

HistoryEntry(data) ==
  [timestamp |-> data.timestamp, grid |-> data.grid.power,
   battery |-> data.battery.power, solar |-> data.solar.power,
   load |-> data.load.power, soe |-> data.battery.soe]

SampleRow(data) ==
  [ts |-> data.timestamp, solar_w |-> data.solar.power,
   battery_w |-> data.battery.power, grid_w |-> data.grid.power,
   load_w |-> data.load.power, battery_soe |-> data.battery.soe,
   battery_status |-> data.battery.status]

\* a history that overwrites its newest entry instead of pushing
PushHistoryReplacing(h, data, t) ==
  IF h = <<>> THEN <<HistoryEntry(data)>>
  ELSE [h EXCEPT ![Len(h)] = HistoryEntry(data)]

\* history.push(...); history = history.filter(newer than 24 h)
PushHistory(h, data, t) ==
  LET cutoff == t - HistoryKeptMs
      Keep(e) == e.timestamp > cutoff
  IN  SelectSeq(Append(h, HistoryEntry(data)), Keep)

(***************************************************************************)
(* Observations.  sent, httpResponse, alertHist, deltaLog and firstCum     *)
(* record what the handlers did; no handler reads them.  A specification   *)
(* keeps the observations named in cfg.observe and leaves the others at    *)
(* their initial value.                                                    *)
(***************************************************************************)
Observe(cfg, name, value, initial) ==
  IF name \in cfg.observe THEN value ELSE initial

NoAlertHist == [k \in AlertIds |-> <<>>]

(***************************************************************************)
(* State after start-up                                                    *)
(***************************************************************************)
\* the settings.alerts defaults
DefaultAlertSettings ==
  [batteryLow |-> 20, batteryHigh |-> 95, gridDown |-> TRUE,
   highLoad |-> 5000, highTemp |-> 85, lowTemp |-> 50]

\* a field of a configuration, or its default when the record has none
Opt(cfg, field, default) == IF field \in DOMAIN cfg THEN cfg[field] ELSE default

IdleSlot == [pc |-> "idle", kind |-> "none", began |-> 0, agg |-> None,
             raced |-> FALSE]

Slots == DOMAIN fetches

InFlight == {s \in Slots : fetches[s].pc # "idle"}

\* No baselines; the sample table as earlier runs left it and alerts,
\* history and analytics as loaded from their files (empty unless cfg
\* gives them).  The process has been up, with
\* no subscriber and no request, since HourMs - cfg.hourIn before cfg.start,
\* a multiple of the poll period, so both timers are pending and the poll
\* timer has changed nothing.  cfg.slots bounds the fetches the model runs
\* at once.  codeVersion.hash is the hash of index.html at start-up, ''
\* when the file cannot be read.
Init(cfg) ==
  /\ now = cfg.start
  /\ nextTick = cfg.start + PollIntervalMs
  /\ conns = {}
  /\ broken = {}
  /\ sseClients = <<>>
  /\ alerts \in Opt(cfg, "alertLoads", {<<>>})
  /\ alertsFile = alerts
  /\ settingsAlerts = DefaultAlertSettings
  /\ cachedPowerwall = None
  /\ lastUpdatePowerwall = None
  /\ cachedTemps = None
  /\ lastUpdateTemps = None
  /\ history \in Opt(cfg, "histories", {<<>>})
  /\ historyFile = history
  /\ samples \in Opt(cfg, "sampleLoads", {<<>>})
  /\ baselines = <<>>
  /\ fetches = [s \in cfg.slots |-> IdleSlot]
  /\ httpResponse = None
  /\ sent = <<>>
  /\ alertHist = NoAlertHist
  /\ deltaLog = <<>>
  /\ firstCum = <<>>
  /\ proc = "running"
  /\ nextHour = cfg.start + Opt(cfg, "hourIn", HourMs)
  /\ analytics \in Opt(cfg, "analyticsLoads", {<<>>})
  /\ analyticsFile = analytics
  /\ faultLog = <<>>
  /\ codeVersion = [hash |-> Opt(cfg, "codeHash", ""),
                    timestamp |-> ToISOString(cfg.start + Opt(cfg, "hourIn", HourMs) - HourMs),
                    changed |-> FALSE]

(***************************************************************************)
(* Time                                                                    *)
(***************************************************************************)
Horizon(cfg) == cfg.start + cfg.horizonTicks * PollIntervalMs

\* The clock advances by d.  A timer that is due fires before the clock
\* moves on, and a fetch ends (answers or times out) within its budget.
AdvanceTime(cfg) ==
  \E d \in cfg.steps :
    /\ now + d <= nextTick
    /\ now + d <= nextHour
    /\ now + d <= Horizon(cfg)
    /\ \A s \in InFlight : now + d <= fetches[s].began + FetchBudgetMs
    /\ now' = now + d
    /\ proc = "running"
    /\ UNCHANGED <<proc, nextHour, analytics, analyticsFile, faultLog,
               codeVersion>>
    /\ UNCHANGED <<nextTick, conns, broken, sseClients, alerts, alertsFile,
                   settingsAlerts, cachedPowerwall, lastUpdatePowerwall,
                   cachedTemps, lastUpdateTemps, history, historyFile, samples,
                   baselines, fetches, httpResponse, sent, alertHist, deltaLog,
                   firstCum>>

(***************************************************************************)
(* Starting a fetch                                                        *)
(***************************************************************************)
\* the model runs one fetch per slot at once and cfg.maxPolls polls in all
CanStart(cfg) == /\ Slots \ InFlight # {}
                 /\ Len(samples) + Cardinality(InFlight) < cfg.maxPolls

FreeSlot == CHOOSE s \in Slots \ InFlight : \A r \in Slots \ InFlight : s <= r

StartFetch(kind) ==
  [fetches EXCEPT ![FreeSlot] = [pc |-> "login", kind |-> kind, began |-> now,
                                 agg |-> None, raced |-> FALSE]]

\* a timer callback that polls whether or not anybody is subscribed
TickStartsFetchAlways(clients) == TRUE

\* if (sseClients.length > 0) { const data = await fetchPowerwallData(); ...
TickStartsFetch(clients) == Len(clients) > 0

\* The 10 s timer fires: the callback up to its await.
SchedulerTick(cfg) ==
  /\ now = nextTick
  /\ nextTick' = nextTick + PollIntervalMs
  /\ IF TickStartsFetch(sseClients)
       THEN CanStart(cfg) /\ fetches' = StartFetch("sched")
       ELSE UNCHANGED fetches
  /\ sent' = <<>>
  /\ proc = "running"
  /\ UNCHANGED <<proc, nextHour, analytics, analyticsFile, faultLog,
               codeVersion>>
  /\ UNCHANGED <<now, conns, broken, sseClients, alerts, alertsFile,
                 settingsAlerts, cachedPowerwall, lastUpdatePowerwall,
                 cachedTemps, lastUpdateTemps, history, historyFile, samples,
                 baselines, httpResponse, alertHist, deltaLog, firstCum>>

\* cachedData.powerwall && now - cachedData.lastUpdate.powerwall < 15000
PowerwallCacheFresh ==
  /\ cachedPowerwall # None
  /\ lastUpdatePowerwall # None
  /\ now - lastUpdatePowerwall[1] < PowerwallFreshMs

\* GET /api/powerwall up to its await: answer from the cache or start a fetch.
PowerwallRequest(cfg) ==
  /\ IF PowerwallCacheFresh
       THEN /\ httpResponse' = Observe(cfg, "http",
                                 Some([status |-> 200, body |-> cachedPowerwall]), None)
            /\ UNCHANGED fetches
       ELSE /\ CanStart(cfg)
            /\ fetches' = StartFetch("req")
            /\ UNCHANGED httpResponse
  /\ sent' = <<>>
  /\ proc = "running"
  /\ UNCHANGED <<proc, nextHour, analytics, analyticsFile, faultLog,
               codeVersion>>
  /\ UNCHANGED <<now, nextTick, conns, broken, sseClients, alerts, alertsFile,
                 settingsAlerts, cachedPowerwall, lastUpdatePowerwall,
                 cachedTemps, lastUpdateTemps, history, historyFile, samples,
                 baselines, alertHist, deltaLog, firstCum>>

(***************************************************************************)
(* The awaits of fetchPowerwallData                                        *)
(***************************************************************************)
\* the login answers; the aggregates read is sent
LoginOk(s) ==
  /\ fetches[s].pc = "login"
  /\ fetches' = [fetches EXCEPT ![s].pc = "aggregates"]
  /\ proc = "running"
  /\ UNCHANGED <<proc, nextHour, analytics, analyticsFile, faultLog,
               codeVersion>>
  /\ UNCHANGED <<now, nextTick, conns, broken, sseClients, alerts, alertsFile,
                 settingsAlerts, cachedPowerwall, lastUpdatePowerwall,
                 cachedTemps, lastUpdateTemps, history, historyFile, samples,
                 baselines, httpResponse, sent, alertHist, deltaLog, firstCum>>

\* the aggregates read answers with agg; the state-of-energy read is sent
AggregatesOk(cfg, s) ==
  \E agg \in cfg.aggs :
    /\ fetches[s].pc = "aggregates"
    /\ fetches' = [fetches EXCEPT ![s].pc = "status", ![s].agg = Some(agg)]
    /\ proc = "running"
    /\ UNCHANGED <<proc, nextHour, analytics, analyticsFile, faultLog,
               codeVersion>>
    /\ UNCHANGED <<now, nextTick, conns, broken, sseClients, alerts,
                   alertsFile, settingsAlerts, cachedPowerwall,
                   lastUpdatePowerwall, cachedTemps, lastUpdateTemps, history,
                   historyFile, samples, baselines, httpResponse, sent,
                   alertHist, deltaLog, firstCum>>

\* a failed fetch that drops the cached reading
FetchFailClearsCache(cfg, s) ==
  /\ proc = "running"
  /\ fetches[s].pc # "idle"
  /\ fetches' = [fetches EXCEPT ![s] = IdleSlot]
  /\ cachedPowerwall' = None
  /\ httpResponse' = IF fetches[s].kind = "req"
                       THEN Observe(cfg, "http",
                                    Some([status |-> 500, body |-> None]), None)
                       ELSE httpResponse
  /\ sent' = <<>>
  /\ UNCHANGED <<now, nextTick, conns, broken, sseClients, alerts, alertsFile,
                 settingsAlerts, lastUpdatePowerwall, cachedTemps,
                 lastUpdateTemps, history, historyFile, samples, baselines,
                 alertHist, deltaLog, firstCum, proc, nextHour, analytics,
                 analyticsFile, faultLog, codeVersion>>

\* login or a primary read fails or times out: fetchPowerwallData returns
\* null; the timer callback does nothing more, the endpoint answers 500
FetchFail(cfg, s) ==
  /\ fetches[s].pc # "idle"
  /\ fetches' = [fetches EXCEPT ![s] = IdleSlot]
  /\ httpResponse' = IF fetches[s].kind = "req"
                       THEN Observe(cfg, "http",
                                    Some([status |-> 500, body |-> None]), None)
                       ELSE httpResponse
  /\ sent' = <<>>
  /\ proc = "running"
  /\ UNCHANGED <<proc, nextHour, analytics, analyticsFile, faultLog,
               codeVersion>>
  /\ UNCHANGED <<now, nextTick, conns, broken, sseClients, alerts, alertsFile,
                 settingsAlerts, cachedPowerwall, lastUpdatePowerwall,
                 cachedTemps, lastUpdateTemps, history, historyFile, samples,
                 baselines, alertHist, deltaLog, firstCum>>

(***************************************************************************)
(* A successful poll: the tail of the fetch and the rest of its handler    *)
(***************************************************************************)
\* the other fetches in flight learn that a poll completed meanwhile
Release(s) ==
  [r \in Slots |-> IF r = s THEN IdleSlot
                   ELSE IF fetches[r].pc # "idle"
                     THEN [fetches[r] EXCEPT !.raced = TRUE]
                     ELSE fetches[r]]

LogDelta(s, delta) ==
  SliceLast(Append(deltaLog, [slot |-> s, raced |-> fetches[s].raced,
                              date |-> delta.date, cum |-> delta.cum,
                              base |-> delta.base, created |-> delta.created,
                              d |-> delta.d]), 2)

LogFirst(delta) ==
  IF delta.date \in DOMAIN firstCum THEN firstCum
  ELSE [k \in DOMAIN firstCum \cup {delta.date} |->
          IF k = delta.date THEN delta.cum ELSE firstCum[k]]

\* a timer callback that broadcasts the reading before it evaluates the
\* alerts
FinishScheduledBroadcastFirst(cfg, s) ==
  \E soe \in cfg.soes, extras \in cfg.extras :
    /\ fetches[s].pc = "status"
    /\ fetches[s].kind = "sched"
    /\ LET f == FetchTail(baselines, fetches[s].agg[1], soe, extras, now)
           h == PushHistory(history, f.data, now)
           b == BroadcastUpdate(sseClients, broken,
                                [type |-> "powerwall", data |-> f.data])
           ca == CheckAlerts(f.data, cachedTemps, settingsAlerts, now, alerts,
                             b.clients, broken, alertHist)
       IN  /\ baselines' = f.baselines
           /\ cachedPowerwall' = Some(f.data)
           /\ history' = h
           /\ historyFile' = h
           /\ samples' = Append(samples, SampleRow(f.data))
           /\ alerts' = ca.alerts
           /\ alertsFile' = ca.alerts
           /\ alertHist' = Observe(cfg, "alerts", ca.hist, NoAlertHist)
           /\ sseClients' = ca.clients
           /\ sent' = Observe(cfg, "writes", <<b.rec>> \o ca.sent, <<>>)
           /\ deltaLog' = Observe(cfg, "deltas", LogDelta(s, f.delta), <<>>)
           /\ firstCum' = Observe(cfg, "deltas", LogFirst(f.delta), <<>>)
    /\ fetches' = Release(s)
    /\ proc = "running"
    /\ UNCHANGED <<proc, nextHour, analytics, analyticsFile, faultLog,
               codeVersion>>
    /\ UNCHANGED <<now, nextTick, conns, broken, settingsAlerts,
                   lastUpdatePowerwall, cachedTemps, lastUpdateTemps,
                   httpResponse>>

\* The timer callback after its await, lines 1269-1288, with the tail of
\* the fetch it awaited.
FinishScheduled(cfg, s) ==
  \E soe \in cfg.soes, extras \in cfg.extras :
    /\ fetches[s].pc = "status"
    /\ fetches[s].kind = "sched"
    /\ LET f == FetchTail(baselines, fetches[s].agg[1], soe, extras, now)
           h == PushHistory(history, f.data, now)
           ca == CheckAlerts(f.data, cachedTemps, settingsAlerts, now, alerts,
                             sseClients, broken, alertHist)
           b == BroadcastUpdate(ca.clients, broken,
                                [type |-> "powerwall", data |-> f.data])
       IN  /\ baselines' = f.baselines
           /\ cachedPowerwall' = Some(f.data)
           /\ history' = h
           /\ historyFile' = h
           /\ samples' = Append(samples, SampleRow(f.data))
           /\ alerts' = ca.alerts
           /\ alertsFile' = ca.alerts
           /\ alertHist' = Observe(cfg, "alerts", ca.hist, NoAlertHist)
           /\ sseClients' = b.clients
           /\ sent' = Observe(cfg, "writes", Append(ca.sent, b.rec), <<>>)
           /\ deltaLog' = Observe(cfg, "deltas", LogDelta(s, f.delta), <<>>)
           /\ firstCum' = Observe(cfg, "deltas", LogFirst(f.delta), <<>>)
    /\ fetches' = Release(s)
    /\ proc = "running"
    /\ UNCHANGED <<proc, nextHour, analytics, analyticsFile, faultLog,
               codeVersion>>
    /\ UNCHANGED <<now, nextTick, conns, broken, settingsAlerts,
                   lastUpdatePowerwall, cachedTemps, lastUpdateTemps,
                   httpResponse>>

\* GET /api/powerwall after its await, lines 1218-1245, with the tail of
\* the fetch it awaited.  `now` of the handler was read before the await.
FinishOnDemand(cfg, s) ==
  \E soe \in cfg.soes, extras \in cfg.extras :
    /\ fetches[s].pc = "status"
    /\ fetches[s].kind = "req"
    /\ LET f == FetchTail(baselines, fetches[s].agg[1], soe, extras, now)
           h == PushHistory(history, f.data, now)
           ca == CheckAlerts(f.data, cachedTemps, settingsAlerts, now, alerts,
                             sseClients, broken, alertHist)
           b == BroadcastUpdate(ca.clients, broken,
                                [type |-> "powerwall", data |-> f.data])
       IN  /\ baselines' = f.baselines
           /\ cachedPowerwall' = Some(f.data)
           /\ lastUpdatePowerwall' = Some(fetches[s].began)
           /\ history' = h
           /\ historyFile' = h
           /\ samples' = Append(samples, SampleRow(f.data))
           /\ alerts' = ca.alerts
           /\ alertsFile' = ca.alerts
           /\ alertHist' = Observe(cfg, "alerts", ca.hist, NoAlertHist)
           /\ sseClients' = b.clients
           /\ sent' = Observe(cfg, "writes", Append(ca.sent, b.rec), <<>>)
           /\ httpResponse' = Observe(cfg, "http",
                                 Some([status |-> 200, body |-> Some(f.data)]), None)
           /\ deltaLog' = Observe(cfg, "deltas", LogDelta(s, f.delta), <<>>)
           /\ firstCum' = Observe(cfg, "deltas", LogFirst(f.delta), <<>>)
    /\ fetches' = Release(s)
    /\ proc = "running"
    /\ UNCHANGED <<proc, nextHour, analytics, analyticsFile, faultLog,
               codeVersion>>
    /\ UNCHANGED <<now, nextTick, conns, broken, settingsAlerts, cachedTemps,
                   lastUpdateTemps>>

(***************************************************************************)
(* Live-view connections                                                   *)
(***************************************************************************)
\* a stream handler that writes the cached reading to every subscriber
SubscribeWritesAll(cfg) ==
  \E c \in cfg.clients :
  /\ c \notin conns
  /\ \A x \in cfg.clients \ conns : c <= x
  /\ conns' = conns \cup {c}
  /\ sseClients' = Append(sseClients, c)
  /\ sent' = IF cachedPowerwall # None
               THEN Observe(cfg, "writes",
                      <<[via |-> "direct",
                         event |-> [type |-> "powerwall", data |-> cachedPowerwall[1]],
                         before |-> Append(sseClients, c), dead |-> broken,
                         after |-> Append(sseClients, c),
                         delivered |-> Append(sseClients, c),
                         failed |-> {}]>>, <<>>)
               ELSE <<>>
  /\ proc = "running"
  /\ UNCHANGED <<proc, nextHour, analytics, analyticsFile, faultLog,
               codeVersion>>
  /\ UNCHANGED <<now, nextTick, broken, alerts, alertsFile, settingsAlerts,
                 cachedPowerwall, lastUpdatePowerwall, cachedTemps,
                 lastUpdateTemps, history, historyFile, samples, baselines,
                 fetches, httpResponse, alertHist, deltaLog, firstCum>>

\* GET /api/powerwall/stream: register, then write the cached reading.
\* A new connection takes the lowest name that is not in use.
Subscribe(cfg) ==
  \E c \in cfg.clients :
  /\ c \notin conns
  /\ \A x \in cfg.clients \ conns : c <= x
  /\ conns' = conns \cup {c}
  /\ sseClients' = Append(sseClients, c)
  /\ sent' = IF cachedPowerwall # None
               THEN Observe(cfg, "writes",
                      <<[via |-> "direct",
                         event |-> [type |-> "powerwall", data |-> cachedPowerwall[1]],
                         before |-> Append(sseClients, c), dead |-> broken,
                         after |-> Append(sseClients, c), delivered |-> <<c>>,
                         failed |-> {}]>>, <<>>)
               ELSE <<>>
  /\ proc = "running"
  /\ UNCHANGED <<proc, nextHour, analytics, analyticsFile, faultLog,
               codeVersion>>
  /\ UNCHANGED <<now, nextTick, broken, alerts, alertsFile, settingsAlerts,
                 cachedPowerwall, lastUpdatePowerwall, cachedTemps,
                 lastUpdateTemps, history, historyFile, samples, baselines,
                 fetches, httpResponse, alertHist, deltaLog, firstCum>>

\* a close handler that splices whatever indexOf returns: splice(-1, 1)
\* removes the last element
ClientCloseUnguarded(c) ==
  /\ c \in conns
  /\ conns' = conns \ {c}
  /\ broken' = broken \ {c}
  /\ sseClients' = IF IndexOf(sseClients, c) # 0
                     THEN Splice(sseClients, IndexOf(sseClients, c))
                     ELSE SubSeq(sseClients, 1, Len(sseClients) - 1)
  /\ sent' = <<>>
  /\ proc = "running"
  /\ UNCHANGED <<proc, nextHour, analytics, analyticsFile, faultLog,
               codeVersion>>
  /\ UNCHANGED <<now, nextTick, alerts, alertsFile, settingsAlerts,
                 cachedPowerwall, lastUpdatePowerwall, cachedTemps,
                 lastUpdateTemps, history, historyFile, samples, baselines,
                 fetches, httpResponse, alertHist, deltaLog, firstCum>>

\* req.on('close'): remove the connection if it is still registered
ClientClose(c) ==
  /\ c \in conns
  /\ conns' = conns \ {c}
  /\ broken' = broken \ {c}
  /\ sseClients' = IF IndexOf(sseClients, c) # 0
                     THEN Splice(sseClients, IndexOf(sseClients, c))
                     ELSE sseClients
  /\ sent' = <<>>
  /\ proc = "running"
  /\ UNCHANGED <<proc, nextHour, analytics, analyticsFile, faultLog,
               codeVersion>>
  /\ UNCHANGED <<now, nextTick, alerts, alertsFile, settingsAlerts,
                 cachedPowerwall, lastUpdatePowerwall, cachedTemps,
                 lastUpdateTemps, history, historyFile, samples, baselines,
                 fetches, httpResponse, alertHist, deltaLog, firstCum>>

\* the peer goes away: from now on a write to this connection throws
ClientBreak(c) ==
  /\ c \in conns \ broken
  /\ broken' = broken \cup {c}
  /\ proc = "running"
  /\ UNCHANGED <<proc, nextHour, analytics, analyticsFile, faultLog,
               codeVersion>>
  /\ UNCHANGED <<now, nextTick, conns, sseClients, alerts, alertsFile,
                 settingsAlerts, cachedPowerwall, lastUpdatePowerwall,
                 cachedTemps, lastUpdateTemps, history, historyFile, samples,
                 baselines, fetches, httpResponse, sent, alertHist, deltaLog,
                 firstCum>>

(***************************************************************************)
(* Alerts, settings and temperature endpoints                              *)
(***************************************************************************)
\* alerts.filter(a => a.id !== id)
RemoveAlert(list, id) == LET Keep(a) == a.id # id IN SelectSeq(list, Keep)

\* DELETE /api/alerts/:id
ClearAlert(cfg, id) ==
  /\ alerts' = RemoveAlert(alerts, id)
  /\ alertsFile' = alerts'
  /\ alertHist' = IF FindAlert(alerts, id)
                    THEN Observe(cfg, "alerts",
                           [alertHist EXCEPT ![id] = Append(@, "cleared")],
                           NoAlertHist)
                    ELSE alertHist
  /\ sent' = <<>>
  /\ proc = "running"
  /\ UNCHANGED <<proc, nextHour, analytics, analyticsFile, faultLog,
               codeVersion>>
  /\ UNCHANGED <<now, nextTick, conns, broken, sseClients, settingsAlerts,
                 cachedPowerwall, lastUpdatePowerwall, cachedTemps,
                 lastUpdateTemps, history, historyFile, samples, baselines,
                 fetches, httpResponse, deltaLog, firstCum>>

\* { ...settings.alerts, ...req.body }
Spread(a, b) ==
  [k \in DOMAIN a \cup DOMAIN b |-> IF k \in DOMAIN b THEN b[k] ELSE a[k]]

\* PUT /api/alerts/settings
PutAlertSettings(cfg) ==
  \E body \in cfg.settingsBodies :
    /\ settingsAlerts' = Spread(settingsAlerts, body)
    /\ sent' = <<>>
    /\ proc = "running"
    /\ UNCHANGED <<proc, nextHour, analytics, analyticsFile, faultLog,
               codeVersion>>
    /\ UNCHANGED <<now, nextTick, conns, broken, sseClients, alerts,
                   alertsFile, cachedPowerwall, lastUpdatePowerwall,
                   cachedTemps, lastUpdateTemps, history, historyFile, samples,
                   baselines, fetches, httpResponse, alertHist, deltaLog,
                   firstCum>>

\* PUT /api/admin/settings: settings = { ...settings, ...req.body }.  Of the
\* settings object the model keeps the alerts member; a body with an alerts
\* member replaces that member as a whole.
PutAdminSettings(cfg) ==
  \E body \in cfg.adminBodies :
    /\ settingsAlerts' = Spread([alerts |-> settingsAlerts], body).alerts
    /\ sent' = <<>>
    /\ proc = "running"
    /\ UNCHANGED <<proc, nextHour, analytics, analyticsFile, faultLog,
               codeVersion>>
    /\ UNCHANGED <<now, nextTick, conns, broken, sseClients, alerts,
                   alertsFile, cachedPowerwall, lastUpdatePowerwall,
                   cachedTemps, lastUpdateTemps, history, historyFile, samples,
                   baselines, fetches, httpResponse, alertHist, deltaLog,
                   firstCum>>

\* GET /api/temps when its cache is stale and the provider answers tempinf
\* (in tenths of a degree)
GetTemps(cfg) ==
  \E tempinf \in cfg.temps :
    /\ ~(cachedTemps # None /\ now - lastUpdateTemps[1] < TempsFreshMs)
    /\ cachedTemps' = Some([inside |-> MathRoundTenths(tempinf)])
    /\ lastUpdateTemps' = Some(now)
    /\ sent' = <<>>
    /\ proc = "running"
    /\ UNCHANGED <<proc, nextHour, analytics, analyticsFile, faultLog,
               codeVersion>>
    /\ UNCHANGED <<now, nextTick, conns, broken, sseClients, alerts,
                   alertsFile, settingsAlerts, cachedPowerwall,
                   lastUpdatePowerwall, history, historyFile, samples,
                   baselines, fetches, httpResponse, alertHist, deltaLog,
                   firstCum>>

(***************************************************************************)
(* Hourly roll-up                                                          *)
(***************************************************************************)
RECURSIVE SumOf(_)
SumOf(s) == IF s = <<>> THEN 0 ELSE Head(s) + SumOf(Tail(s))

\* Math.max(...arr) and Math.min(...arr) of a non-empty array
RECURSIVE MaxOf(_)
MaxOf(s) == IF Len(s) = 1 THEN s[1] ELSE Max(Head(s), MaxOf(Tail(s)))

RECURSIVE MinOf(_)
MinOf(s) == IF Len(s) = 1 THEN s[1] ELSE Min(Head(s), MinOf(Tail(s)))

\* hourlyData.map(h => h[field])
Column(h, field) == [i \in 1..Len(h) |-> h[i][field]]

\* Math.round(avg(arr))
RoundAvg(s) == MathRoundDiv(SumOf(s), Len(s))

\* Math.round(avg(arr)) of states of energy, in percent
RoundAvgSoe(s) == MathRoundDiv(SumOf(s), Len(s) * SoeScale)

\* a window that is closed at both ends
HourlyDataInclusive(h, t) ==
  LET InWindow(e) == e.timestamp >= t - HourMs /\ e.timestamp <= t
  IN  SelectSeq(h, InWindow)

\* history.filter(timestamp > hourAgo && timestamp <= now)
HourlyData(h, t) ==
  LET InWindow(e) == e.timestamp > t - HourMs /\ e.timestamp <= t
  IN  SelectSeq(h, InWindow)

\* calculateHourlyAnalytics(): no entry for an empty window.  The kWh
\* totals are kept as the sum of the watts they are computed from.
CalculateHourlyAnalytics(h, t) ==
  LET w == HourlyData(h, t)
  IN  IF Len(w) = 0 THEN None
      ELSE Some([hour |-> ToISOString(t),
                 grid |-> [avg |-> RoundAvg(Column(w, "grid")),
                           max |-> MaxOf(Column(w, "grid")),
                           min |-> MinOf(Column(w, "grid")),
                           samples |-> Len(w)],
                 solar |-> [avg |-> RoundAvg(Column(w, "solar")),
                            max |-> MaxOf(Column(w, "solar")),
                            min |-> MinOf(Column(w, "solar")),
                            total |-> SumOf(Column(w, "solar"))],
                 load |-> [avg |-> RoundAvg(Column(w, "load")),
                           max |-> MaxOf(Column(w, "load")),
                           min |-> MinOf(Column(w, "load")),
                           total |-> SumOf(Column(w, "load"))],
                 battery |-> [avgSoe |-> RoundAvgSoe(Column(w, "soe")),
                              maxSoe |-> MaxOf(Column(w, "soe")),
                              minSoe |-> MinOf(Column(w, "soe"))]])

\* a roll-up that appends without trimming
PushAnalyticsUntrimmed(list, entry) == Append(list, entry)

\* analytics.push(entry); analytics = analytics.slice(-720)
PushAnalytics(list, entry) == SliceLast(Append(list, entry), AnalyticsKept)

\* a roll-up that also records an empty window
RollUpAlways(h, t) ==
  LET e == CalculateHourlyAnalytics(h, t)
  IN  IF e = None
        THEN Some([hour |-> ToISOString(t),
                   grid |-> [avg |-> 0, max |-> 0, min |-> 0, samples |-> 0],
                   solar |-> [avg |-> 0, max |-> 0, min |-> 0, total |-> 0],
                   load |-> [avg |-> 0, max |-> 0, min |-> 0, total |-> 0],
                   battery |-> [avgSoe |-> 0, maxSoe |-> 0, minSoe |-> 0]])
        ELSE e

\* const hourlyAnalytics = calculateHourlyAnalytics(); if (hourlyAnalytics)
RollUp(h, t) == CalculateHourlyAnalytics(h, t)

\* The hourly timer fires: the whole callback, which has no await.
HourlyTick(cfg) ==
  /\ proc = "running"
  /\ now = nextHour
  /\ nextHour' = nextHour + HourMs
  /\ LET e == RollUp(history, now)
         b == BroadcastUpdate(sseClients, broken,
                              [type |-> "analytics", data |-> e[1]])
     IN  IF e # None
           THEN /\ analytics' = PushAnalytics(analytics, e[1])
                /\ analyticsFile' = analytics'
                /\ sseClients' = b.clients
                /\ sent' = Observe(cfg, "writes", <<b.rec>>, <<>>)
           ELSE /\ UNCHANGED <<analytics, analyticsFile, sseClients>>
                /\ sent' = <<>>
  /\ UNCHANGED <<now, nextTick, conns, broken, alerts, alertsFile,
                 settingsAlerts, cachedPowerwall, lastUpdatePowerwall,
                 cachedTemps, lastUpdateTemps, history, historyFile, samples,
                 baselines, fetches, httpResponse, alertHist, deltaLog,
                 firstCum, proc, faultLog, codeVersion>>

(***************************************************************************)
(* Durable writes that throw.  A poll whose gateway reads all answered     *)
(* performs, in this order: the baseline lookup and insert (inside         *)
(* fetchPowerwallData's try), the history snapshot, the sample insert (in  *)
(* a try of its own), and the alert snapshot at the end of checkAlerts.    *)
(***************************************************************************)
DurableWrites == {"baseline", "history", "sample", "alerts"}

\* An exception that leaves an async callback nobody awaits is an
\* unhandled rejection: the runtime terminates the process or only warns,
\* depending on its version and flags.  One that leaves a synchronous
\* timer callback always terminates it.  One that is caught inside the
\* handler does neither.
AfterThrow(caught, async) ==
  IF caught THEN {"running"}
  ELSE IF async THEN {"running", "exited"}
  ELSE {"exited"}

\* where the exception of a poll's durable write ends: the baseline's in
\* fetchPowerwallData's catch, the sample's in its own catch, the two
\* snapshots' in the endpoint's catch or, on the timer path, nowhere
PollThrowOutcomes(kind, fault) ==
  AfterThrow(fault \in {"baseline", "sample"} \/ kind = "req", TRUE)

\* A poll in which one durable write throws: the handler as far as it gets.
PollThrows(cfg, s) ==
  \E soe \in cfg.soes, extras \in cfg.extras, fault \in cfg.faults \cap DurableWrites :
    /\ proc = "running"
    /\ fetches[s].pc = "status"
    /\ Len(faultLog) < cfg.maxFaults
    /\ LET kind == fetches[s].kind
           f == FetchTail(baselines, fetches[s].agg[1], soe, extras, now)
           h == PushHistory(history, f.data, now)
           ca == CheckAlerts(f.data, cachedTemps, settingsAlerts, now, alerts,
                             sseClients, broken, alertHist)
           b == BroadcastUpdate(ca.clients, broken,
                                [type |-> "powerwall", data |-> f.data])
           fetched == fault # "baseline"
           evaluated == fault \in {"sample", "alerts"}
       IN  /\ baselines' = IF fetched THEN f.baselines ELSE baselines
           /\ cachedPowerwall' = IF fetched THEN Some(f.data) ELSE cachedPowerwall
           /\ lastUpdatePowerwall' = IF fetched /\ kind = "req"
                                       THEN Some(fetches[s].began)
                                       ELSE lastUpdatePowerwall
           /\ history' = IF fetched THEN h ELSE history
           /\ historyFile' = IF evaluated THEN h ELSE historyFile
           /\ samples' = IF fault = "alerts"
                           THEN Append(samples, SampleRow(f.data)) ELSE samples
           /\ alerts' = IF evaluated THEN ca.alerts ELSE alerts
           /\ alertsFile' = IF fault = "sample" THEN ca.alerts ELSE alertsFile
           /\ alertHist' = IF evaluated
                             THEN Observe(cfg, "alerts", ca.hist, NoAlertHist)
                             ELSE alertHist
           /\ sseClients' = IF fault = "sample" THEN b.clients
                             ELSE IF fault = "alerts" THEN ca.clients
                             ELSE sseClients
           /\ sent' = IF fault = "sample"
                        THEN Observe(cfg, "writes", Append(ca.sent, b.rec), <<>>)
                      ELSE IF fault = "alerts"
                        THEN Observe(cfg, "writes", ca.sent, <<>>)
                      ELSE <<>>
           /\ httpResponse' =
                IF kind # "req" THEN httpResponse
                ELSE IF fault = "sample"
                  THEN Observe(cfg, "http",
                               Some([status |-> 200, body |-> Some(f.data)]), None)
                ELSE Observe(cfg, "http", Some([status |-> 500, body |-> None]), None)
           /\ deltaLog' = IF fetched
                            THEN Observe(cfg, "deltas", LogDelta(s, f.delta), <<>>)
                            ELSE deltaLog
           /\ firstCum' = IF fetched
                            THEN Observe(cfg, "deltas", LogFirst(f.delta), <<>>)
                            ELSE firstCum
           /\ proc' \in PollThrowOutcomes(kind, fault)
           /\ faultLog' = Append(faultLog, [write |-> fault, path |-> kind,
                                            reading |-> f.data])
    /\ fetches' = Release(s)
    /\ UNCHANGED <<now, nextTick, conns, broken, settingsAlerts, cachedTemps,
                   lastUpdateTemps, nextHour, analytics, analyticsFile,
                   codeVersion>>

\* The hourly timer fires and the analytics snapshot throws: the entry is
\* in the array, not in the file, nothing is broadcast, and the exception
\* leaves the synchronous timer callback.
HourlyThrows(cfg) ==
  /\ proc = "running"
  /\ now = nextHour
  /\ "analytics" \in cfg.faults
  /\ Len(faultLog) < cfg.maxFaults
  /\ RollUp(history, now) # None
  /\ nextHour' = nextHour + HourMs
  /\ analytics' = PushAnalytics(analytics, RollUp(history, now)[1])
  /\ sent' = <<>>
  /\ proc' \in AfterThrow(FALSE, FALSE)
  /\ faultLog' = Append(faultLog, [write |-> "analytics", path |-> "hourly",
                                   reading |-> None])
  /\ UNCHANGED <<now, nextTick, conns, broken, sseClients, alerts, alertsFile,
                 settingsAlerts, cachedPowerwall, lastUpdatePowerwall,
                 cachedTemps, lastUpdateTemps, history, historyFile, samples,
                 baselines, fetches, httpResponse, alertHist, deltaLog,
                 firstCum, analyticsFile, codeVersion>>

(***************************************************************************)
(* Queries                                                                 *)
(***************************************************************************)
\* parseInt(req.query.limit) || 20: 0 and a missing limit both give 20
ParseLimit(q) == IF q = None \/ q[1] = 0 THEN 20 ELSE q[1]

\* list.slice(start)
Slice(list, start) ==
  LET from == IF start < 0 THEN Max(Len(list) + start, 0)
              ELSE Min(start, Len(list))
  IN  SubSeq(list, from + 1, Len(list))

\* list.reverse()
Reverse(list) == [i \in 1..Len(list) |-> list[Len(list) - i + 1]]

\* GET /api/alerts?limit=q
GetAlerts(cfg) ==
  \E q \in cfg.limits :
    /\ httpResponse' = Observe(cfg, "http",
                         Some([route |-> "alerts", query |-> q, status |-> 200,
                               body |-> Reverse(Slice(alerts, -ParseLimit(q)))]),
                         None)
    /\ sent' = <<>>
    /\ proc = "running"
    /\ UNCHANGED <<proc, nextHour, analytics, analyticsFile, faultLog,
               codeVersion>>
    /\ UNCHANGED <<now, nextTick, conns, broken, sseClients, alerts,
                   alertsFile, settingsAlerts, cachedPowerwall,
                   lastUpdatePowerwall, cachedTemps, lastUpdateTemps, history,
                   historyFile, samples, baselines, fetches, alertHist,
                   deltaLog, firstCum>>

\* the days of a range parameter: 7 for '7d', 30 for '30d', otherwise 1
RangeDays(range) ==
  IF range = Some("7d") THEN 7 ELSE IF range = Some("30d") THEN 30 ELSE 1

\* history.filter(h => timestamp > t - days * 24 h)
FilterHistory(h, t, days) ==
  LET Keep(e) == (t - e.timestamp) \div MsPerDay < days
  IN  SelectSeq(h, Keep)

\* GET /api/admin/history?range=r
GetHistory(cfg) ==
  \E range \in cfg.ranges :
    /\ httpResponse' = Observe(cfg, "http",
                         Some([route |-> "history", query |-> range,
                               status |-> 200,
                               body |-> FilterHistory(history, now,
                                                      RangeDays(range))]),
                         None)
    /\ sent' = <<>>
    /\ proc = "running"
    /\ UNCHANGED <<proc, nextHour, analytics, analyticsFile, faultLog,
               codeVersion>>
    /\ UNCHANGED <<now, nextTick, conns, broken, sseClients, alerts,
                   alertsFile, settingsAlerts, cachedPowerwall,
                   lastUpdatePowerwall, cachedTemps, lastUpdateTemps, history,
                   historyFile, samples, baselines, fetches, alertHist,
                   deltaLog, firstCum>>

\* a limit of 24 entries whatever the range
AnalyticsLimitAlways24(range) == 24

\* let limit = 24; if (range === '7d') limit = 168; else if (range ===
\* '30d') limit = 720
AnalyticsLimit(range) ==
  IF range = Some("7d") THEN 168
  ELSE IF range = Some("30d") THEN 720
  ELSE 24

\* GET /api/analytics?range=...
GetAnalytics(cfg) ==
  \E range \in cfg.ranges :
    /\ httpResponse' = Observe(cfg, "http",
                               Some([route |-> "analytics", query |-> range,
                                     status |-> 200,
                                     body |-> Slice(analytics, 0 - AnalyticsLimit(range))]),
                               None)
    /\ sent' = <<>>
    /\ proc = "running"
    /\ UNCHANGED <<proc, nextHour, analytics, analyticsFile, faultLog,
               codeVersion>>
    /\ UNCHANGED <<now, nextTick, conns, broken, sseClients, alerts,
                   alertsFile, settingsAlerts, cachedPowerwall,
                   lastUpdatePowerwall, cachedTemps, lastUpdateTemps,
                   history, historyFile, samples, baselines, fetches,
                   alertHist, deltaLog, firstCum>>

(***************************************************************************)
(* Hot reload                                                              *)
(***************************************************************************)
Digits36 ==
  <<"0", "1", "2", "3", "4", "5", "6", "7", "8", "9", "a", "b", "c", "d", "e",
    "f", "g", "h", "i", "j", "k", "l", "m", "n", "o", "p", "q", "r", "s", "t",
    "u", "v", "w", "x", "y", "z">>

\* n.toString(36) for an integer n >= 0
RECURSIVE ToString36(_)
ToString36(n) ==
  IF n < 36 THEN Digits36[n + 1]
  ELSE ToString36(n \div 36) \o Digits36[(n % 36) + 1]

\* watcher.on('change'): a file under public/ changed and newHash is the
\* hash of index.html as it is now.  The event broadcast carries the fields
\* type and hash.
FileChanged(cfg) ==
  \E newHash \in cfg.codeHashes :
    /\ proc = "running"
    /\ IF newHash # codeVersion.hash
         THEN LET b == BroadcastUpdate(sseClients, broken,
                                       [type |-> "code-update", hash |-> newHash])
              IN  /\ codeVersion' = [hash |-> newHash,
                                     timestamp |-> ToISOString(now),
                                     changed |-> TRUE]
                  /\ sseClients' = b.clients
                  /\ sent' = Observe(cfg, "writes", <<b.rec>>, <<>>)
         ELSE /\ UNCHANGED <<codeVersion, sseClients>>
              /\ sent' = <<>>
    /\ UNCHANGED <<now, nextTick, conns, broken, alerts, alertsFile,
                   settingsAlerts, cachedPowerwall, lastUpdatePowerwall,
                   cachedTemps, lastUpdateTemps, history, historyFile,
                   samples, baselines, fetches, httpResponse, alertHist,
                   deltaLog, firstCum, proc, nextHour, analytics,
                   analyticsFile, faultLog>>

\* POST /api/force-refresh.  The handler assigns the three fields of
\* codeVersion and then evaluates ssClients.forEach: no binding of that name
\* exists (the array is sseClients), so a ReferenceError leaves the handler
\* before anything is written to a subscriber and before res.json; Express
\* answers 500.
ForceRefresh(cfg) ==
  /\ proc = "running"
  /\ codeVersion' = [hash |-> ToString36(now),
                     timestamp |-> ToISOString(now),
                     changed |-> TRUE]
  /\ httpResponse' = Observe(cfg, "http",
                             Some([route |-> "force-refresh", query |-> None,
                                   status |-> 500,
                                   body |-> "ReferenceError: ssClients is not defined"]),
                             None)
  /\ sent' = <<>>
  /\ UNCHANGED <<now, nextTick, conns, broken, sseClients, alerts, alertsFile,
                 settingsAlerts, cachedPowerwall, lastUpdatePowerwall,
                 cachedTemps, lastUpdateTemps, history, historyFile, samples,
                 baselines, fetches, alertHist, deltaLog, firstCum, proc,
                 nextHour, analytics, analyticsFile, faultLog>>

\* POST /api/code-version/ack
AckCodeVersion(cfg) ==
  /\ proc = "running"
  /\ codeVersion' = [codeVersion EXCEPT !.changed = FALSE]
  /\ httpResponse' = Observe(cfg, "http",
                             Some([route |-> "code-version/ack",
                                   query |-> None, status |-> 200,
                                   body |-> [success |-> TRUE]]),
                             None)
  /\ sent' = <<>>
  /\ UNCHANGED <<now, nextTick, conns, broken, sseClients, alerts, alertsFile,
                 settingsAlerts, cachedPowerwall, lastUpdatePowerwall,
                 cachedTemps, lastUpdateTemps, history, historyFile, samples,
                 baselines, fetches, alertHist, deltaLog, firstCum, proc,
                 nextHour, analytics, analyticsFile, faultLog>>

(***************************************************************************)
(* Next-state relation                                                     *)
(***************************************************************************)
Next(cfg) ==
  \/ AdvanceTime(cfg)
  \/ SchedulerTick(cfg)
  \/ PowerwallRequest(cfg)
  \/ \E s \in cfg.slots : LoginOk(s)
  \/ \E s \in cfg.slots : AggregatesOk(cfg, s)
  \/ \E s \in cfg.slots : FetchFail(cfg, s)
  \/ \E s \in cfg.slots : FinishScheduled(cfg, s)
  \/ \E s \in cfg.slots : FinishOnDemand(cfg, s)
  \/ Subscribe(cfg)
  \/ \E c \in cfg.clients : ClientClose(c)
  \/ \E c \in cfg.clients : ClientBreak(c)
  \/ \E id \in cfg.clearIds : ClearAlert(cfg, id)
  \/ PutAlertSettings(cfg)
  \/ GetTemps(cfg)

\* with the hourly timer, for behaviours that reach the hour
NextRollup(cfg) == Next(cfg) \/ HourlyTick(cfg)

\* with the read-only endpoints of the alert list and the history
NextQueries(cfg) == Next(cfg) \/ GetAlerts(cfg) \/ GetHistory(cfg)

\* with the second endpoint that updates the settings
NextSettings(cfg) == Next(cfg) \/ PutAdminSettings(cfg)

\* with the read-only endpoint of the analytics list
NextAnalytics(cfg) == Next(cfg) \/ GetAnalytics(cfg)

\* every source of push events: polls, alert evaluation, the hourly timer,
\* the file watcher and the force-refresh endpoint
NextEvents(cfg) ==
  \/ NextRollup(cfg)
  \/ FileChanged(cfg)
  \/ ForceRefresh(cfg)
  \/ AckCodeVersion(cfg)

\* with durable writes that may throw
NextFaulty(cfg) ==
  \/ NextRollup(cfg)
  \/ \E s \in cfg.slots : PollThrows(cfg, s)
  \/ HourlyThrows(cfg)

(***************************************************************************)
(* Inputs                                                                  *)
(***************************************************************************)
\* a gateway answer: instant powers in tenths of a watt, counters as sent
Agg(siteP, loadP, solarExp, loadImp) ==
  [solarP |-> 4004, batteryP |-> -104, loadP |-> loadP, siteP |-> siteP,
   solarExp |-> solarExp, batteryExp |-> 300000, batteryImp |-> 200000,
   siteImp |-> 700000, siteExp |-> 100000, loadImp |-> loadImp]

ExtrasOk ==
  Some([grid_status |-> "SystemGridConnected", grid_services_active |-> TRUE,
        real_mode |-> "self_consumption", backup_reserve_percent |-> 20,
        nominal_full_pack_energy |-> 13500, nominal_energy_remaining |-> 6749,
        max_charge_power |-> 5000, max_discharge_power |-> 5000,
        version |-> "23.44.0"])

\* ten seconds before UTC midnight of day 1
StartBeforeMidnight == MsPerDay - PollIntervalMs

(***************************************************************************)
(* The alert engine under polls, clears and threshold changes              *)
(***************************************************************************)
AlertsClients == 1
AlertsSlots == 1
AlertsPolls == 3
AlertsTicks == 2

\* State of energy 10 and 15 breach the default battery-low threshold of
\* 20, 50 does not.  The site exports 20 W, so every poll breaches grid-down.
\* An inside temperature of 70 F breaches nothing.
CfgAlerts ==
  [clients |-> 1..AlertsClients, slots |-> 1..AlertsSlots,
   maxPolls |-> AlertsPolls, horizonTicks |-> AlertsTicks,
   observe |-> {"writes", "alerts"},
   start |-> StartBeforeMidnight,
   steps |-> {PollIntervalMs},
   aggs |-> {Agg(-200, 9900, 1000000, 2000000)},
   soes |-> {Pct(10), Pct(15), Pct(50)},
   extras |-> {ExtrasOk},
   temps |-> {700},
   settingsBodies |-> {[batteryLow |-> 12]},
   clearIds |-> {"battery-low"}]

SpecAlerts == Init(CfgAlerts) /\ [][Next(CfgAlerts)]_vars

\* the writes of the last handler that broadcast an alert of kind k
AlertWrites(log, k) ==
  {i \in 1..Len(log) : log[i].event.type = "alert" /\ log[i].event.data.id = k}

\* the last handler was a poll: its final write is the powerwall broadcast
AfterPoll ==
  /\ sent # <<>>
  /\ sent[Len(sent)].via = "broadcast"
  /\ sent[Len(sent)].event.type = "powerwall"

PolledData == sent[Len(sent)].event.data

CandidateIds ==
  LET c == NewAlerts(PolledData, cachedTemps, settingsAlerts, PolledData.timestamp)
  IN  {c[i].id : i \in 1..Len(c)}

\* raised, then suppressed any number of times, then cleared, and again
RECURSIVE WellFormedHist(_, _)
WellFormedHist(h, present) ==
  IF h = <<>> THEN TRUE
  ELSE IF Head(h) = "raised" THEN ~present /\ WellFormedHist(Tail(h), TRUE)
  ELSE IF Head(h) = "suppressed" THEN present /\ WellFormedHist(Tail(h), TRUE)
  ELSE present /\ WellFormedHist(Tail(h), FALSE)

\* C1: alerts are de-duplicated by kind.  The list never holds two entries
\* of one kind; right after an evaluation every breached kind has exactly
\* one entry; a kind is raised only when absent (at first, or after it was
\* cleared), and a breach of a kind that is present is suppressed until
\* clearAlert removes the entry, after which the next breach raises it anew.
C1_AlertDedup ==
  /\ \A k \in AlertIds : CountId(alerts, k) <= 1
  /\ \A k \in AlertIds : WellFormedHist(alertHist[k], FALSE)
  /\ \A k \in AlertIds :
       FindAlert(alerts, k) <=>
         (alertHist[k] # <<>> /\ alertHist[k][Len(alertHist[k])] # "cleared")
  /\ AfterPoll =>
       \A k \in CandidateIds :
         /\ CountId(alerts, k) = 1
         /\ alertHist[k][Len(alertHist[k])] \in {"raised", "suppressed"}
  /\ alertsFile = alerts

\* battery-low was raised, suppressed by a second breach, cleared, and
\* raised again by the next breach
C1_Witness ==
  /\ alertHist["battery-low"] = <<"raised", "suppressed", "cleared", "raised">>
  /\ CountId(alerts, "battery-low") = 1
  /\ AfterPoll

\* C2: an alert in the list stays in it, with every field unchanged, across
\* every step except the clearAlert of its own kind.
C2_AlertKept ==
  [][\A i \in 1..Len(alerts) :
       \/ \E j \in 1..Len(alerts') : alerts'[j] = alerts[i]
       \/ ClearAlert(CfgAlerts, alerts[i].id)]_vars

\* battery-low was raised at 15 %, then polls at 10 % (worse) and at 50 %
\* (recovered) followed, and the entry of the first poll is still there
C2_Witness ==
  /\ Len(history) = 3
  /\ history[1].soe = Pct(15) /\ history[2].soe = Pct(10)
  /\ history[3].soe = Pct(50)
  /\ history[1].timestamp < history[3].timestamp
  /\ \E i \in 1..Len(alerts) :
       /\ alerts[i].id = "battery-low"
       /\ alerts[i].message[1] = Pct(15)
       /\ alerts[i].timestamp = history[1].timestamp

\* C3: a step broadcasts an alert event of kind k exactly when it is an
\* evaluation that appends the entry of kind k to the list (no entry of the
\* kind was there); the event is that entry, broadcast once.
C3_BroadcastIffAppended ==
  [][/\ samples' # samples =>
          \A k \in AlertIds :
            /\ AlertWrites(sent', k) # {} <=>
                 (~FindAlert(alerts, k) /\ FindAlert(alerts', k))
            /\ Cardinality(AlertWrites(sent', k)) <= 1
            /\ \A i \in AlertWrites(sent', k) :
                 /\ sent'[i].via = "broadcast"
                 /\ \E j \in 1..Len(alerts') : alerts'[j] = sent'[i].event.data
     /\ (samples' = samples /\ sent' # sent) =>
          \A k \in AlertIds : AlertWrites(sent', k) = {}]_vars

\* one evaluation with two candidates: grid-down was present and was not
\* broadcast, battery-low was absent and was broadcast
C3_Witness ==
  /\ AfterPoll
  /\ CandidateIds = {"battery-low", "grid-down"}
  /\ alertHist["grid-down"] = <<"raised", "suppressed">>
  /\ alertHist["battery-low"] = <<"raised">>
  /\ AlertWrites(sent, "grid-down") = {}
  /\ AlertWrites(sent, "battery-low") # {}
  /\ Len(sseClients) > 0

(***************************************************************************)
(* Day baselines under racing polls across midnight                        *)
(***************************************************************************)
BaselineClients == 1
BaselineSlots == 2
BaselinePolls == 3
BaselineTicks == 1

\* counters as first read, as read later in the day, and a momentary
\* reading below the first one
AggFirst ==
  [solarP |-> 4004, batteryP |-> -104, loadP |-> 9900, siteP |-> 9800,
   solarExp |-> 1000000, batteryExp |-> 300000, batteryImp |-> 200000,
   siteImp |-> 700000, siteExp |-> 100000, loadImp |-> 2000000]

AggLater ==
  [AggFirst EXCEPT !.solarExp = 1500000, !.batteryExp = 400000,
                   !.siteImp = 900000, !.loadImp = 2800000]

AggGlitch ==
  [AggFirst EXCEPT !.solarExp = 900000, !.batteryExp = 250000,
                   !.siteImp = 650000, !.loadImp = 1900000]

CfgBaseline ==
  [clients |-> 1..BaselineClients, slots |-> 1..BaselineSlots,
   maxPolls |-> BaselinePolls, horizonTicks |-> BaselineTicks,
   observe |-> {"deltas"},
   start |-> StartBeforeMidnight,
   steps |-> {PollIntervalMs},
   aggs |-> {AggFirst, AggLater, AggGlitch},
   soes |-> {Pct(50)},
   extras |-> {ExtrasOk},
   temps |-> {700},
   settingsBodies |-> {[batteryLow |-> 12]},
   clearIds |-> {"battery-low"}]

SpecBaseline == Init(CfgBaseline) /\ [][Next(CfgBaseline)]_vars

Channels == {"daySolar", "dayBattery", "dayGrid", "dayLoad"}

\* the counter a day-delta channel is computed from
CounterOf(ch) ==
  CASE ch = "daySolar" -> "solar_exported_wh"
    [] ch = "dayBattery" -> "battery_exported_wh"
    [] ch = "dayGrid" -> "grid_imported_wh"
    [] ch = "dayLoad" -> "load_imported_wh"

\* C4: one baseline row per date, written once.  At every moment the
\* baseline table holds, for each date on which a poll completed, exactly
\* the counters of the first poll that completed on that date, and no row
\* for any other date; later polls with other counters change no row.
C4_BaselineIsFirstPoll ==
  /\ DOMAIN baselines = DOMAIN firstCum
  /\ \A k \in DOMAIN baselines : baselines[k] = firstCum[k]
  /\ \A i \in 1..Len(deltaLog) :
       /\ deltaLog[i].date \in DOMAIN baselines
       /\ deltaLog[i].created => baselines[deltaLog[i].date] = deltaLog[i].cum

\* two dates have a baseline, and on the later date a second poll with
\* other counters completed and left the row of the first one in place
C4_Witness ==
  /\ Cardinality(DOMAIN baselines) = 2
  /\ Len(deltaLog) = 2
  /\ deltaLog[1].date = deltaLog[2].date
  /\ deltaLog[1].created
  /\ deltaLog[2].cum # deltaLog[1].cum
  /\ baselines[deltaLog[2].date] = deltaLog[1].cum
  /\ \E k \in DOMAIN baselines : k # deltaLog[2].date

\* C5: polls that race on a date's first poll agree on its baseline.  Every
\* poll computes its day-deltas against the row that is stored for its
\* date, the row is created by one poll only, and two polls of one date
\* read the same row, also when they were in flight together.
C5_RacingPollsShareBaseline ==
  /\ \A i \in 1..Len(deltaLog) :
       /\ deltaLog[i].date \in DOMAIN baselines
       /\ deltaLog[i].base = baselines[deltaLog[i].date]
       /\ \A ch \in Channels :
            deltaLog[i].d[ch] =
              Max(0, deltaLog[i].cum[CounterOf(ch)]
                       - baselines[deltaLog[i].date][CounterOf(ch)])
  /\ Len(deltaLog) = 2 /\ deltaLog[1].date = deltaLog[2].date =>
       /\ deltaLog[1].base = deltaLog[2].base
       /\ ~deltaLog[2].created

\* two polls were in flight together over midnight with different
\* counters; one created the new date's baseline, the other used it
C5_Witness ==
  /\ Len(deltaLog) = 2
  /\ deltaLog[1].date = deltaLog[2].date
  /\ deltaLog[1].date = TodayKey(StartBeforeMidnight) + 1
  /\ deltaLog[1].created
  /\ deltaLog[2].raced
  /\ deltaLog[1].slot # deltaLog[2].slot
  /\ deltaLog[1].cum # deltaLog[2].cum
  /\ deltaLog[2].base = deltaLog[1].cum

\* C6 as stated: within one date every day-delta is never negative and
\* never decreases from one poll to the next.
C6_DeltaMonotone ==
  /\ \A i \in 1..Len(deltaLog) : \A ch \in Channels : deltaLog[i].d[ch] >= 0
  /\ Len(deltaLog) = 2 /\ deltaLog[1].date = deltaLog[2].date =>
       \A ch \in Channels : deltaLog[2].d[ch] >= deltaLog[1].d[ch]

\* C6 as amended: within one date every day-delta is never negative, and
\* from one poll to the next a day-delta does not decrease when its counter
\* reading is not lower than the previous reading.
C6_DeltaClampedAndMonotoneInCounter ==
  /\ \A i \in 1..Len(deltaLog) : \A ch \in Channels : deltaLog[i].d[ch] >= 0
  /\ Len(deltaLog) = 2 /\ deltaLog[1].date = deltaLog[2].date =>
       \A ch \in Channels :
         deltaLog[2].cum[CounterOf(ch)] >= deltaLog[1].cum[CounterOf(ch)] =>
           deltaLog[2].d[ch] >= deltaLog[1].d[ch]

\* on one date: a poll below the baseline is clamped to 0 on every
\* channel, and the next poll reads higher counters and higher deltas
C6_Witness ==
  /\ Len(deltaLog) = 2
  /\ deltaLog[1].date = deltaLog[2].date
  /\ ~deltaLog[1].created
  /\ \A ch \in Channels :
       /\ deltaLog[1].cum[CounterOf(ch)] < deltaLog[1].base[CounterOf(ch)]
       /\ deltaLog[1].d[ch] = 0
       /\ deltaLog[2].cum[CounterOf(ch)] > deltaLog[1].cum[CounterOf(ch)]
       /\ deltaLog[2].d[ch] > 0

(***************************************************************************)
(* Scheduler, overlapping fetches and the fan-out to failing subscribers   *)
(***************************************************************************)
FanoutClients == 3
FanoutSlots == 2
FanoutPolls == 2
FanoutTicks == 1

\* the site exports 20 W: the first poll raises grid-down, so its handler
\* broadcasts an alert event and then the powerwall event
CfgFanout ==
  [clients |-> 1..FanoutClients, slots |-> 1..FanoutSlots,
   maxPolls |-> FanoutPolls, horizonTicks |-> FanoutTicks,
   observe |-> {"writes"},
   start |-> StartBeforeMidnight,
   steps |-> {PollIntervalMs},
   aggs |-> {Agg(-200, 9900, 1000000, 2000000)},
   soes |-> {Pct(50)},
   extras |-> {ExtrasOk},
   temps |-> {700},
   settingsBodies |-> {[batteryLow |-> 12]},
   clearIds |-> {"grid-down"}]

SpecFanout == Init(CfgFanout) /\ [][Next(CfgFanout)]_vars

Broadcasts == {i \in 1..Len(sent) : sent[i].via = "broadcast"}

\* how often a write to c succeeded in one broadcast
Deliveries(rec, c) ==
  Cardinality({i \in 1..Len(rec.delivered) : rec.delivered[i] = c})

\* C7: at no time are two gateway fetches in flight.
C7_OneFetchAtATime == Cardinality(InFlight) <= 1

\* C8: in every broadcast, each subscriber that was registered when the
\* broadcast started and whose write does not throw was written exactly once.
C8_DeliveredExactlyOnce ==
  \A i \in Broadcasts :
    \A c \in Range(sent[i].before) \ sent[i].dead :
      Deliveries(sent[i], c) = 1

\* C9: a broadcast removes exactly the subscribers whose write threw.  The
\* array afterwards is the array before without them, in the same order;
\* a write throws exactly when it is to a dead connection, so no write to
\* a dead connection counts as delivered; nobody is written twice; and the
\* broadcast returns: the handler goes on, and the array it leaves is the
\* one its last broadcast left.
C9_RemovesExactlyFailedWrites ==
  /\ \A i \in Broadcasts :
       LET Kept(c) == c \notin sent[i].failed IN
       /\ sent[i].after = SelectSeq(sent[i].before, Kept)
       /\ sent[i].failed \subseteq sent[i].dead \cap Range(sent[i].before)
       /\ Range(sent[i].delivered) \cap sent[i].dead = {}
       /\ Range(sent[i].delivered) \cup sent[i].failed \subseteq Range(sent[i].before)
       /\ \A c \in Range(sent[i].before) : Deliveries(sent[i], c) <= 1
       /\ i > 1 /\ sent[i - 1].via = "broadcast" =>
            sent[i].before = sent[i - 1].after
  /\ Broadcasts # {} => sseClients = sent[Len(sent)].after

\* a broadcast to three subscribers in which the write to the second one
\* threw: it is gone, the first and the third are still registered
C9_Witness ==
  \E i \in Broadcasts :
    /\ Len(sent[i].before) = 3
    /\ sent[i].failed = {sent[i].before[2]}
    /\ sent[i].after = <<sent[i].before[1], sent[i].before[3]>>
    /\ sseClients = sent[i].after

\* C10: the 10 s timer polls only for subscribers.  A timer step starts a
\* fetch only if a subscriber is registered; with none registered it
\* changes nothing but the timer itself; and while nobody is registered a
\* fetch is started by the on-demand endpoint only.
C10_TickPollsOnlyForSubscribers ==
  [][/\ nextTick' # nextTick =>
          /\ fetches' # fetches => Len(sseClients) > 0
          /\ Len(sseClients) = 0 =>
               /\ UNCHANGED <<fetches, samples, history, historyFile, alerts,
                              alertsFile, cachedPowerwall, lastUpdatePowerwall,
                              baselines, sseClients, httpResponse>>
               /\ sent' = <<>>
     /\ \A s \in Slots :
          (Len(sseClients) = 0 /\ fetches[s].pc = "idle"
             /\ fetches'[s].pc # "idle") => fetches'[s].kind = "req"]_vars

\* the timer has just fired with nobody registered: no fetch is in
\* flight and nothing was polled
C10_Witness ==
  /\ nextTick = now + PollIntervalMs
  /\ now > StartBeforeMidnight
  /\ conns = {}
  /\ sseClients = <<>>
  /\ InFlight = {}
  /\ samples = <<>>
  /\ cachedPowerwall = None

(***************************************************************************)
(* Readings: what a poll derives, caches and answers, for a range of       *)
(* gateway answers, with and without the extra status reads                *)
(***************************************************************************)
ReadingClients == 1
ReadingSlots == 1
ReadingPolls == 2
ReadingTicks == 1

\* a gateway answer with the given instant grid, load and battery powers
\* (tenths of a watt) and the counters of AggFirst
Instant(siteP, loadP, batteryP) ==
  [AggFirst EXCEPT !.siteP = siteP, !.loadP = loadP, !.batteryP = batteryP]

\* grid 980 W at load 990 W; exporting 20 W; no load; import above the
\* load; negative load; battery powers 0, 10, -10, 11, -11 W exactly and
\* 10.4, 10.5, -10.5 W before rounding; and later counters of the same day
ReadingAggs ==
  {Instant(9800, 9900, 0), Instant(-200, 9900, 100), Instant(9800, 0, -100),
   Instant(20000, 9900, 110), Instant(9800, -50, -110),
   Instant(9800, 9900, 104), Instant(9800, 9900, 105),
   Instant(9800, 9900, -105),
   [AggLater EXCEPT !.siteP = 9800, !.loadP = 9900, !.batteryP = 0]}

CfgReading ==
  [clients |-> 1..ReadingClients, slots |-> 1..ReadingSlots,
   maxPolls |-> ReadingPolls, horizonTicks |-> ReadingTicks,
   observe |-> {"writes", "http", "deltas"},
   start |-> StartBeforeMidnight + PollIntervalMs,
   steps |-> {PollIntervalMs},
   aggs |-> ReadingAggs,
   soes |-> {Pct(50)},
   extras |-> {ExtrasOk, None},
   temps |-> {700},
   settingsBodies |-> {[batteryLow |-> 12]},
   clearIds |-> {"battery-low"}]

SpecReading == Init(CfgReading) /\ [][Next(CfgReading)]_vars

\* C11: a failed fetch produces no update.  A step in which a fetch ends
\* without a sample (login, a primary read or a timeout failed) leaves the
\* cached reading, the history and its file, the sample table, the alert
\* list and its file, the baselines and the subscribers as they were and
\* writes to no subscriber; on the on-demand path the answer is the 500
\* error, and the cached reading stays what the stream and the next fresh
\* answer expose.
C11_FailedFetchNoUpdate ==
  [][\A s \in Slots :
       (fetches[s].pc # "idle" /\ fetches'[s].pc = "idle" /\ samples' = samples) =>
         /\ UNCHANGED <<cachedPowerwall, lastUpdatePowerwall, history,
                        historyFile, samples, alerts, alertsFile, baselines,
                        sseClients, analytics, analyticsFile>>
         /\ sent' = <<>>
         /\ fetches[s].kind = "req" =>
              httpResponse' = Some([status |-> 500, body |-> None])
         /\ fetches[s].kind = "sched" => httpResponse' = httpResponse]_vars

\* an on-demand fetch has failed after an earlier poll had cached a
\* reading: the answer is the error and the reading is still cached
C11_Witness ==
  /\ httpResponse = Some([status |-> 500, body |-> None])
  /\ cachedPowerwall # None
  /\ Len(samples) = 1
  /\ SampleRow(cachedPowerwall[1]) = samples[1]
  /\ InFlight = {}

(***************************************************************************)
(* Polls and roll-ups whose durable writes may throw                       *)
(***************************************************************************)
FaultsClients == 1
FaultsSlots == 1
FaultsPolls == 2
FaultsTicks == 1
FaultsMax == 1

\* the hourly timer is due at the first poll tick; at most FaultsMax
\* writes throw
CfgFaults ==
  [clients |-> 1..FaultsClients, slots |-> 1..FaultsSlots,
   maxPolls |-> FaultsPolls, horizonTicks |-> FaultsTicks,
   observe |-> {"writes"},
   start |-> StartBeforeMidnight + PollIntervalMs,
   hourIn |-> PollIntervalMs,
   faults |-> DurableWrites \cup {"analytics"},
   maxFaults |-> FaultsMax,
   steps |-> {PollIntervalMs},
   aggs |-> {AggFirst},
   soes |-> {Pct(50)},
   extras |-> {ExtrasOk},
   temps |-> {700},
   settingsBodies |-> {[batteryLow |-> 12]},
   clearIds |-> {"grid-down"}]

SpecFaults == Init(CfgFaults) /\ [][NextFaulty(CfgFaults)]_vars

\* the step is a handler in which a write threw
Threw == Len(faultLog') = Len(faultLog) + 1

LastFault == faultLog'[Len(faultLog')]

\* C12: when a durable write of a poll throws (baseline insert, history
\* snapshot, sample insert or alert snapshot), the reading the poll derived
\* is the cached reading afterwards and was broadcast as a powerwall event.
C12_ReadingSurvivesWriteFailure ==
  [][(Threw /\ LastFault.write \in DurableWrites) =>
       /\ cachedPowerwall' = Some(LastFault.reading)
       /\ \E i \in 1..Len(sent') :
            /\ sent'[i].via = "broadcast"
            /\ sent'[i].event = [type |-> "powerwall", data |-> LastFault.reading]]_vars

\* C13: no failure inside the pipeline ends the process.
C13_NoFatalError == proc = "running"

\* the readings a client can see: the cached one, the body of the last
\* answer, and the data of the powerwall events of the last handler
ReadingsSeen ==
  (IF cachedPowerwall # None THEN {cachedPowerwall[1]} ELSE {})
  \cup (IF httpResponse # None /\ httpResponse[1].body # None
          THEN {httpResponse[1].body[1]} ELSE {})
  \cup {sent[i].event.data :
          i \in {j \in 1..Len(sent) : sent[j].event.type = "powerwall"}}

SystemFields ==
  {"gridConnected", "gridServices", "operationMode", "backupReserve",
   "nominalFull", "energyRemaining", "maxChargePower", "maxDischargePower",
   "firmwareVersion"}

SystemDefaults ==
  [gridConnected |-> FALSE, gridServices |-> FALSE,
   operationMode |-> "unknown", backupReserve |-> 0, nominalFull |-> 0,
   energyRemaining |-> 0, maxChargePower |-> 0, maxDischargePower |-> 0,
   firmwareVersion |-> "unknown"]

\* what the answers of ExtrasOk give: 13500 Wh, 6749 Wh and 5000 W in
\* thousands, rounded
SystemAnswered ==
  [gridConnected |-> TRUE, gridServices |-> TRUE,
   operationMode |-> "self_consumption", backupReserve |-> 20,
   nominalFull |-> 14, energyRemaining |-> 7, maxChargePower |-> 5,
   maxDischargePower |-> 5, firmwareVersion |-> "23.44.0"]

\* C14: a failed secondary status read does not fail the fetch.  Every
\* reading has a whole system block, which is either the answered one or,
\* when the secondary reads failed, the defaults (false, "unknown", 0);
\* and apart from the system block the reading is the one a fetch with
\* all reads answered derives from the same gateway answer and baseline.
C14_SecondaryReadDefaults ==
  \A r \in ReadingsSeen :
    /\ DOMAIN r.system = SystemFields
    /\ r.system \in {SystemDefaults, SystemAnswered}
    /\ TodayKey(r.timestamp) \in DOMAIN baselines
    /\ \E agg \in ReadingAggs :
         [r EXCEPT !.system = SystemAnswered] =
           PowerwallData(agg, r.battery.soe, ExtrasOk,
                         baselines[TodayKey(r.timestamp)], r.timestamp)

\* an on-demand poll whose secondary reads failed was answered 200 with a
\* reading that has the default system block; it is cached and sampled
C14_Witness ==
  /\ httpResponse # None
  /\ httpResponse[1].status = 200
  /\ httpResponse[1].body = cachedPowerwall
  /\ cachedPowerwall[1].system = SystemDefaults
  /\ cachedPowerwall[1].grid.power = 980
  /\ cachedPowerwall[1].selfPoweredPercent = 1
  /\ samples # <<>>
  /\ samples[Len(samples)] = SampleRow(cachedPowerwall[1])

\* every block and field of a reading is there
Whole(r) ==
  /\ DOMAIN r = {"timestamp", "grid", "battery", "load", "solar",
                 "selfPoweredPercent", "dailyBreakdown", "system"}
  /\ DOMAIN r.grid = {"power"}
  /\ DOMAIN r.battery = {"power", "soe", "status"}
  /\ DOMAIN r.load = {"power"}
  /\ DOMAIN r.solar = {"power"}
  /\ DOMAIN r.dailyBreakdown = {"solarPct", "batteryPct", "gridPct", "solarKwh",
                                "batteryKwh", "gridKwh", "loadKwh"}
  /\ DOMAIN r.system = SystemFields

\* C15: whole readings or the error, nothing in between.  The cache is
\* null or a whole reading, the one of the latest successful poll (its
\* values are those of the last sample row, so it was replaced as a whole);
\* an answer of the endpoint is 200 with a whole reading or 500 without
\* one; and every powerwall event carries the whole cached reading.
C15_WholeReadingOrError ==
  /\ cachedPowerwall # None =>
       /\ Whole(cachedPowerwall[1])
       /\ samples # <<>>
       /\ samples[Len(samples)] = SampleRow(cachedPowerwall[1])
  /\ cachedPowerwall = None => samples = <<>>
  /\ httpResponse # None =>
       \/ /\ httpResponse[1].status = 200
          /\ httpResponse[1].body # None
          /\ Whole(httpResponse[1].body[1])
       \/ httpResponse[1] = [status |-> 500, body |-> None]
  /\ \A i \in 1..Len(sent) :
       sent[i].event.type = "powerwall" =>
         /\ Whole(sent[i].event.data)
         /\ Some(sent[i].event.data) = cachedPowerwall

\* a second poll with another gateway answer has replaced the cached
\* reading; the subscriber got it as an event and the endpoint answered it
C15_Witness ==
  /\ Len(samples) = 2
  /\ samples[1].battery_status # samples[2].battery_status
  /\ cachedPowerwall # None
  /\ httpResponse = Some([status |-> 200, body |-> cachedPowerwall])
  /\ \E i \in 1..Len(sent) :
       /\ sent[i].event = [type |-> "powerwall", data |-> cachedPowerwall[1]]
       /\ sent[i].delivered # <<>>

(***************************************************************************)
(* The hourly roll-up, over empty and non-empty windows, with the          *)
(* analytics file empty and full                                           *)
(***************************************************************************)
RollupClients == 1
RollupSlots == 1
RollupPolls == 2
RollupTicks == 1

\* an analytics entry as a previous run stored it, stamped with the full
\* hour h (hours since the epoch)
StoredEntry(h) ==
  [hour |-> <<h \div 24, (h % 24) * HourMs>>,
   grid |-> [avg |-> 980, max |-> 980, min |-> 980, samples |-> 1],
   solar |-> [avg |-> 400, max |-> 400, min |-> 400, total |-> 400],
   load |-> [avg |-> 990, max |-> 990, min |-> 990, total |-> 990],
   battery |-> [avgSoe |-> 50, maxSoe |-> Pct(50), minSoe |-> Pct(50)]]

\* the entries of the n full hours up to the one before t, oldest first
StoredAnalytics(n, t) ==
  [i \in 1..n |-> StoredEntry(t \div HourMs - (n - i + 1))]

\* a history entry as a previous run stored it at t
StoredSample(t) ==
  [timestamp |-> t, grid |-> 980, battery |-> -10, solar |-> 400,
   load |-> 990, soe |-> Pct(50)]

\* The hourly timer is due at the first poll tick.  The history file held
\* nothing or one sample that is two hours old.
CfgRollup ==
  [clients |-> 1..RollupClients, slots |-> 1..RollupSlots,
   maxPolls |-> RollupPolls, horizonTicks |-> RollupTicks,
   observe |-> {"writes"},
   start |-> StartBeforeMidnight + PollIntervalMs,
   hourIn |-> PollIntervalMs,
   histories |-> {<<>>, <<StoredSample(StartBeforeMidnight + PollIntervalMs - 2 * HourMs)>>},
   analyticsLoads |-> {<<>>,
                       StoredAnalytics(AnalyticsKept, StartBeforeMidnight)},
   steps |-> {PollIntervalMs},
   aggs |-> {Instant(-200, 9900, 110)},
   soes |-> {Pct(50)},
   extras |-> {ExtrasOk},
   temps |-> {700},
   settingsBodies |-> {[batteryLow |-> 12]},
   clearIds |-> {"grid-down"}]

SpecRollup == Init(CfgRollup) /\ [][NextRollup(CfgRollup)]_vars

\* the history samples of the hour that ends now
InLastHour == {i \in 1..Len(history) :
                 history[i].timestamp > now - HourMs /\ history[i].timestamp <= now}

\* the step is the hourly timer firing
HourlyFires == nextHour' # nextHour

\* C16: a roll-up over an empty window does nothing.  When the hourly
\* timer fires and no history sample lies in the last hour, the analytics
\* list and its file are unchanged and nothing is written to a subscriber.
C16_EmptyWindowNoEntry ==
  [][(HourlyFires /\ InLastHour = {}) =>
       /\ UNCHANGED <<analytics, analyticsFile, sseClients, history,
                      historyFile, cachedPowerwall>>
       /\ sent' = <<>>]_vars

\* the timer has fired with a subscriber connected and a history that
\* holds only a two-hour-old sample: the full analytics list is as loaded
C16_Witness ==
  /\ nextHour = now + HourMs
  /\ Len(history) = 1
  /\ history[1].timestamp <= now - HourMs
  /\ sseClients # <<>>
  /\ sent = <<>>
  /\ analytics = StoredAnalytics(AnalyticsKept, StartBeforeMidnight)
  /\ analyticsFile = analytics

\* C17: a roll-up over a non-empty window appends one entry, trims and
\* broadcasts, subscribers or not.  When the hourly timer fires and some
\* history sample lies in the last hour: the list afterwards is the list
\* before with one entry for this hour appended, cut from the front to
\* 720 entries; the file holds the same; and the handler makes exactly
\* one broadcast, of that entry.
C17_RollupAppendsTrimsBroadcasts ==
  [][(HourlyFires /\ InLastHour # {}) =>
       LET n == Len(analytics')
           dropped == Len(analytics) + 1 - n
       IN  /\ n = Min(Len(analytics) + 1, 720)
           /\ \A k \in 1..(n - 1) : analytics'[k] = analytics[k + dropped]
           /\ analytics'[n].hour = <<now \div 86400000, now % 86400000>>
           /\ analytics'[n].grid.samples = Cardinality(InLastHour)
           /\ analytics'[n].grid.min <= analytics'[n].grid.avg
           /\ analytics'[n].grid.avg <= analytics'[n].grid.max
           /\ analyticsFile' = analytics'
           /\ Len(sent') = 1
           /\ sent'[1].via = "broadcast"
           /\ sent'[1].event = [type |-> "analytics", data |-> analytics'[n]]
           /\ sent'[1].before = sseClients]_vars

\* with nobody subscribed the timer has fired over a window of two
\* samples: the full list lost its oldest entry and ends with this hour's
C17_Witness ==
  /\ nextHour = now + HourMs
  /\ conns = {}
  /\ sseClients = <<>>
  /\ Len(analytics) = AnalyticsKept
  /\ analytics[AnalyticsKept].hour = ToISOString(now)
  /\ analytics[AnalyticsKept].grid.samples = 2
  /\ analytics[1] = StoredAnalytics(AnalyticsKept, StartBeforeMidnight)[2]
  /\ analyticsFile = analytics
  /\ Len(sent) = 1
  /\ sent[1].event.type = "analytics"

(***************************************************************************)
(* The derived values of a reading                                         *)
(***************************************************************************)
\* the day-delta computation of the poll that produced the cached reading
LastDelta == deltaLog[Len(deltaLog)]

\* the cached reading reports the instantaneous percentage: the day has
\* no load yet (line 1124 leaves dailySelfPowered as initialised)
ReportsInstant ==
  /\ cachedPowerwall # None
  /\ deltaLog # <<>>
  /\ LastDelta.d.dayLoad = 0

\* q is x rounded as Math.round rounds, for x = num / den and den > 0:
\* q - 1/2 <= x < q + 1/2
IsRounded(q, num, den) ==
  /\ 2 * q * den - den <= 2 * num
  /\ 2 * num < 2 * q * den + den

\* C18: the instantaneous self-powered percentage.  Whenever the reading
\* reports it, it is 0 for a load of at most 0 W and otherwise
\* (load - max(0, grid)) / load * 100 rounded to the nearest integer and
\* clamped to 0..100; it lies in 0..100; it is 1 for 980 W of grid at
\* 990 W of load and 100 for -20 W of grid at 990 W of load.
C18_InstantSelfPowered ==
  ReportsInstant =>
    LET r == cachedPowerwall[1]
        load == r.load.power
        grid == r.grid.power
        gridSupplied == IF grid > 0 THEN grid ELSE 0
        p == r.selfPoweredPercent
    IN  /\ p \in 0..100
        /\ load <= 0 => p = 0
        /\ load > 0 =>
             \E q \in -1000..1000 :
               /\ IsRounded(q, (load - gridSupplied) * 100, load)
               /\ p = IF q < 0 THEN 0 ELSE IF q > 100 THEN 100 ELSE q
        /\ (grid = 980 /\ load = 990) => p = 1
        /\ (grid = -20 /\ load = 990) => p = 100

\* the second poll of the day read the counters of the first, with the
\* grid at 980 W where the first poll had it at -20 W: the reading says 1
C18_Witness ==
  /\ ReportsInstant
  /\ Len(samples) = 2
  /\ samples[1].grid_w = -20
  /\ samples[1].load_w = 990
  /\ cachedPowerwall[1].grid.power = 980
  /\ cachedPowerwall[1].load.power = 990
  /\ cachedPowerwall[1].selfPoweredPercent = 1

\* C19: the percentage in the answer of GET /api/powerwall is the
\* instantaneous one.  Every 200 answer carries a reading whose
\* selfPoweredPercent is (load - grid supplied) / load * 100 of that
\* reading's own load and grid power, rounded and within 0..100: 1 for
\* 980 W of grid at 990 W of load, 100 for -20 W of grid at 990 W of load,
\* on every poll of the day.
C19_AnswerReportsInstant ==
  (httpResponse # None /\ httpResponse[1].status = 200) =>
    LET r == httpResponse[1].body[1]
        load == r.load.power
        gridSupplied == IF r.grid.power > 0 THEN r.grid.power ELSE 0
        p == r.selfPoweredPercent
    IN  /\ load > 0 =>
             \E q \in -1000..1000 :
               /\ IsRounded(q, (load - gridSupplied) * 100, load)
               /\ p = IF q < 0 THEN 0 ELSE IF q > 100 THEN 100 ELSE q
        /\ (r.grid.power = 980 /\ load = 990) => p = 1
        /\ (r.grid.power = -20 /\ load = 990) => p = 100

\* C20: the battery status follows from the rounded battery power alone,
\* with a dead-band of 10 W whose bounds belong to it.  In every sample
\* row and every reading a client sees the status is "discharging"
\* exactly if the power is above 10, "charging" exactly if it is below
\* -10 and "standby" otherwise, whatever the status before.
C20_BatteryDeadBand ==
  LET Right(power, status) ==
        /\ status \in {"discharging", "charging", "standby"}
        /\ status = "discharging" <=> power > 10
        /\ status = "charging" <=> power < -10
        /\ status = "standby" <=> (power >= -10 /\ power <= 10)
  IN  /\ \A i \in 1..Len(samples) :
           Right(samples[i].battery_w, samples[i].battery_status)
      /\ \A r \in ReadingsSeen : Right(r.battery.power, r.battery.status)

\* a poll at 11 W found the battery discharging and the next one, at
\* exactly 10 W, found it in standby; the cached reading says so
C20_Witness ==
  /\ Len(samples) = 2
  /\ samples[1].battery_w = 11
  /\ samples[1].battery_status = "discharging"
  /\ samples[2].battery_w = 10
  /\ samples[2].battery_status = "standby"
  /\ cachedPowerwall # None
  /\ cachedPowerwall[1].battery.power = 10
  /\ cachedPowerwall[1].battery.status = "standby"

(***************************************************************************)
(* The day's energy breakdown of a reading                                 *)
(***************************************************************************)
\* the percentage and the kWh figure (in tenths) of a day-delta channel
PctOf(ch) ==
  CASE ch = "daySolar" -> "solarPct"
    [] ch = "dayBattery" -> "batteryPct"
    [] ch = "dayGrid" -> "gridPct"

KwhOf(ch) ==
  CASE ch = "daySolar" -> "solarKwh"
    [] ch = "dayBattery" -> "batteryKwh"
    [] ch = "dayGrid" -> "gridKwh"
    [] ch = "dayLoad" -> "loadKwh"

\* C21: day-deltas and the daily breakdown.  For the poll that produced
\* the cached reading: each day-delta is the counter read minus the
\* counter in the baseline row of the poll's date, or 0 if that is
\* negative; with a day load above 0 each percentage is the channel's
\* delta over the day load times 100, rounded, and each kWh figure the
\* delta over 1e6 to one decimal; with a day load of 0 the percentages are
\* 0.  From a baseline of solar 1000000 and load 2000000, counters of
\* solar 1500000 and load 2800000 give daySolar 500000, dayLoad 800000,
\* solarPct 63 and solarKwh 0.5.
C21_DayDeltasAndBreakdown ==
  (cachedPowerwall # None /\ deltaLog # <<>>) =>
    LET b == cachedPowerwall[1].dailyBreakdown
        cum == LastDelta.cum
        base == baselines[LastDelta.date]
        d == LastDelta.d
    IN  /\ \A ch \in Channels :
             LET diff == cum[CounterOf(ch)] - base[CounterOf(ch)]
             IN  d[ch] = IF diff > 0 THEN diff ELSE 0
        /\ d.dayLoad > 0 =>
             /\ \A ch \in Channels \ {"dayLoad"} :
                  IsRounded(b[PctOf(ch)], d[ch] * 100, d.dayLoad)
             /\ \A ch \in Channels : IsRounded(b[KwhOf(ch)], d[ch] * 10, 1000000)
        /\ d.dayLoad = 0 =>
             \A ch \in Channels \ {"dayLoad"} : b[PctOf(ch)] = 0
        /\ (/\ base.solar_exported_wh = 1000000
            /\ base.load_imported_wh = 2000000
            /\ cum.solar_exported_wh = 1500000
            /\ cum.load_imported_wh = 2800000) =>
             /\ d.daySolar = 500000
             /\ d.dayLoad = 800000
             /\ b.solarPct = 63
             /\ b.solarKwh = 5

\* the date's first poll read solar 1000000 and load 2000000, a later poll
\* of the date read 1500000 and 2800000: the reading shows 63 % and 0.5 kWh
C21_Witness ==
  /\ cachedPowerwall # None
  /\ Len(deltaLog) = 2
  /\ deltaLog[1].date = deltaLog[2].date
  /\ deltaLog[1].created
  /\ deltaLog[1].cum.solar_exported_wh = 1000000
  /\ deltaLog[1].cum.load_imported_wh = 2000000
  /\ deltaLog[2].cum.solar_exported_wh = 1500000
  /\ deltaLog[2].cum.load_imported_wh = 2800000
  /\ deltaLog[2].d.daySolar = 500000
  /\ deltaLog[2].d.dayLoad = 800000
  /\ cachedPowerwall[1].dailyBreakdown.solarPct = 63
  /\ cachedPowerwall[1].dailyBreakdown.solarKwh = 5

\* C22: the daily self-powered percentage.  For the poll that produced the
\* cached reading: with a day load above 0 the reported percentage is
\* (daySolar + dayBattery) / dayLoad * 100, rounded and clamped to 0..100;
\* with a day load of 0 it is the instantaneous percentage of the reading's
\* own load and grid power; either way it lies in 0..100.
C22_DailySelfPowered ==
  (cachedPowerwall # None /\ deltaLog # <<>>) =>
    LET r == cachedPowerwall[1]
        d == LastDelta.d
        p == r.selfPoweredPercent
        load == r.load.power
        gridSupplied == IF r.grid.power > 0 THEN r.grid.power ELSE 0
        Clamped(q) == IF q < 0 THEN 0 ELSE IF q > 100 THEN 100 ELSE q
    IN  /\ p \in 0..100
        /\ d.dayLoad > 0 =>
             \E q \in 0..200 :
               /\ IsRounded(q, (d.daySolar + d.dayBattery) * 100, d.dayLoad)
               /\ p = Clamped(q)
        /\ (d.dayLoad = 0 /\ load > 0) =>
             \E q \in -200..200 :
               /\ IsRounded(q, (load - gridSupplied) * 100, load)
               /\ p = Clamped(q)
        /\ (d.dayLoad = 0 /\ load <= 0) => p = 0

\* the day's solar and battery energy exceed the day's load: the reading
\* reports 100; the poll before it, which found no day load, reported the
\* instantaneous value
C22_Witness ==
  /\ cachedPowerwall # None
  /\ Len(deltaLog) = 2
  /\ deltaLog[1].date = deltaLog[2].date
  /\ deltaLog[1].d.dayLoad = 0
  /\ deltaLog[2].d.dayLoad > 0
  /\ deltaLog[2].d.daySolar + deltaLog[2].d.dayBattery > deltaLog[2].d.dayLoad
  /\ cachedPowerwall[1].selfPoweredPercent = 100

(***************************************************************************)
(* Alert candidates at the thresholds, before and after a settings change  *)
(***************************************************************************)
ThresholdsClients == 1
ThresholdsSlots == 1
ThresholdsPolls == 2
ThresholdsTicks == 1

\* Every reading sits on a default threshold: state of energy 20 and 95,
\* grid 0 W with load 5000 W (or grid 1 W with load 4999 W), inside
\* temperature 85 F and 50 F.  The settings change moves every threshold by
\* one, away from these readings, and switches the grid check off.
CfgThresholds ==
  [clients |-> 1..ThresholdsClients, slots |-> 1..ThresholdsSlots,
   maxPolls |-> ThresholdsPolls, horizonTicks |-> ThresholdsTicks,
   observe |-> {"writes", "alerts"},
   start |-> StartBeforeMidnight + PollIntervalMs,
   steps |-> {PollIntervalMs},
   aggs |-> {Agg(0, 50000, 1000000, 2000000), Agg(10, 49990, 1000000, 2000000)},
   soes |-> {Pct(20), Pct(95)},
   extras |-> {ExtrasOk},
   temps |-> {850, 500},
   settingsBodies |-> {[batteryLow |-> 19, batteryHigh |-> 96,
                        gridDown |-> FALSE, highLoad |-> 5001,
                        highTemp |-> 86, lowTemp |-> 49]},
   clearIds |-> {"grid-down"}]

SpecThresholds == Init(CfgThresholds) /\ [][Next(CfgThresholds)]_vars

\* the step is a successful poll, which evaluates the alerts
Evaluates == samples' # samples

\* the condition of alert kind k on reading r, temperature reading temps
\* and thresholds st
Breached(k, r, temps, st) ==
  CASE k = "battery-low" -> r.battery.soe <= Pct(st.batteryLow)
    [] k = "battery-high" -> r.battery.soe >= Pct(st.batteryHigh)
    [] k = "grid-down" -> st.gridDown /\ r.grid.power <= 0
    [] k = "high-load" -> r.load.power >= st.highLoad
    [] k = "high-temp" -> temps # None /\ temps[1].inside >= st.highTemp
    [] k = "low-temp" -> temps # None /\ temps[1].inside <= st.lowTemp

SeverityOf(k) ==
  CASE k = "battery-low" -> "high"
    [] k = "battery-high" -> "low"
    [] k = "grid-down" -> "critical"
    [] k = "high-load" -> "medium"
    [] k = "high-temp" -> "high"
    [] k = "low-temp" -> "medium"

\* C23: the candidates of an evaluation.  In every successful poll a kind
\* is a candidate (raised or suppressed, once) exactly if its condition
\* holds for the new reading, the cached temperature reading and the
\* thresholds in the settings at that moment: battery-low soe <= batteryLow,
\* battery-high soe >= batteryHigh, grid-down flag on and grid <= 0,
\* high-load load >= highLoad, and with a temperature reading high-temp
\* inside >= highTemp and low-temp inside <= lowTemp.  Every entry of the
\* list has the severity of its kind.
C23_CandidatesByThreshold ==
  [][Evaluates =>
       /\ \A k \in AlertIds :
            /\ alertHist'[k] # alertHist[k] <=>
                 Breached(k, cachedPowerwall'[1], cachedTemps, settingsAlerts)
            /\ alertHist'[k] # alertHist[k] =>
                 /\ Len(alertHist'[k]) = Len(alertHist[k]) + 1
                 /\ SubSeq(alertHist'[k], 1, Len(alertHist[k])) = alertHist[k]
                 /\ alertHist'[k][Len(alertHist'[k])] \in {"raised", "suppressed"}
       /\ \A i \in 1..Len(alerts') :
            alerts'[i].severity = SeverityOf(alerts'[i].id)]_vars

\* two polls read state of energy 20, grid 0 W and load 5000 W; between
\* them the settings changed: the first raised battery-low, grid-down and
\* high-load, the second had none of them as a candidate
C23_Witness ==
  /\ Len(samples) = 2
  /\ \A i \in 1..2 : /\ samples[i].battery_soe = Pct(20)
                     /\ samples[i].grid_w = 0
                     /\ samples[i].load_w = 5000
  /\ settingsAlerts.batteryLow = 19
  /\ ~settingsAlerts.gridDown
  /\ alertHist["battery-low"] = <<"raised">>
  /\ alertHist["grid-down"] = <<"raised">>
  /\ alertHist["high-load"] = <<"raised">>
  /\ alertHist["battery-high"] = <<>>

EnergyAlertIds == {"battery-low", "battery-high", "grid-down", "high-load"}

\* C24: a poll without a temperature reading.  When a successful poll
\* finds the temperature cache empty, the battery, grid and load kinds are
\* still evaluated (each breached kind is a candidate and has its entry in
\* the list afterwards), no temperature kind is a candidate or in the
\* list, and the reading is stored as a sample and a history entry, saved,
\* and broadcast as the last write of the handler.
C24_NoTempsStillEvaluates ==
  [][(Evaluates /\ cachedTemps = None) =>
       LET r == cachedPowerwall'[1]
       IN  /\ \A k \in EnergyAlertIds :
                Breached(k, r, None, settingsAlerts) =>
                  /\ Len(alertHist'[k]) = Len(alertHist[k]) + 1
                  /\ \E i \in 1..Len(alerts') : alerts'[i].id = k
           /\ \A k \in AlertIds \ EnergyAlertIds :
                /\ alertHist'[k] = <<>>
                /\ \A i \in 1..Len(alerts') : alerts'[i].id # k
           /\ alertsFile' = alerts'
           /\ Len(samples') = Len(samples) + 1
           /\ samples'[Len(samples')].ts = r.timestamp
           /\ history' # <<>>
           /\ history'[Len(history')].timestamp = r.timestamp
           /\ historyFile' = history'
           /\ sent' # <<>>
           /\ sent'[Len(sent')].via = "broadcast"
           /\ sent'[Len(sent')].event = [type |-> "powerwall", data |-> r]]_vars

\* no temperature was ever read; a poll at state of energy 20, grid 0 W
\* and load 5000 W raised the three energy alerts and its reading reached
\* the subscriber
C24_Witness ==
  /\ cachedTemps = None
  /\ Len(samples) = 1
  /\ samples[1].battery_soe = Pct(20)
  /\ alertHist["battery-low"] = <<"raised">>
  /\ alertHist["grid-down"] = <<"raised">>
  /\ alertHist["high-load"] = <<"raised">>
  /\ alertHist["high-temp"] = <<>>
  /\ alertHist["low-temp"] = <<>>
  /\ Len(alerts) = 3
  /\ sent # <<>>
  /\ sent[Len(sent)].event.type = "powerwall"
  /\ sent[Len(sent)].delivered # <<>>

(***************************************************************************)
(* The trim of the alert list, from an alerts file that is nearly full     *)
(***************************************************************************)
TrimClients == 1
TrimSlots == 1
TrimPolls == 2
TrimTicks == 1

\* an entry of the alerts file as loaded at start-up, of a kind that no
\* check of this version raises
StoredAlert(i) ==
  [id |-> "stored-" \o ToString(i), type |-> "warning", severity |-> "medium",
   message |-> <<0, 0>>, timestamp |-> i]

StoredAlerts(n) == [i \in 1..n |-> StoredAlert(i)]

\* The file held one entry less than the trim keeps, or as many.  A poll
\* at state of energy 20 with the grid at 0 W and 5000 W of load raises
\* three alerts at once, one at state of energy 50 raises two.
CfgTrim ==
  [clients |-> 1..TrimClients, slots |-> 1..TrimSlots,
   maxPolls |-> TrimPolls, horizonTicks |-> TrimTicks,
   observe |-> {"alerts"},
   start |-> StartBeforeMidnight + PollIntervalMs,
   alertLoads |-> {StoredAlerts(AlertsKept - 1), StoredAlerts(AlertsKept)},
   steps |-> {PollIntervalMs},
   aggs |-> {Agg(0, 50000, 1000000, 2000000)},
   soes |-> {Pct(20), Pct(50)},
   extras |-> {ExtrasOk},
   temps |-> {700},
   settingsBodies |-> {[batteryLow |-> 19]},
   clearIds |-> {"grid-down"}]

SpecTrim == Init(CfgTrim) /\ [][Next(CfgTrim)]_vars

\* the kinds the evaluation of this step appended
RaisedNow ==
  {k \in AlertIds : /\ alertHist'[k] # alertHist[k]
                    /\ alertHist'[k][Len(alertHist'[k])] = "raised"}

\* C25: the alert list after an evaluation.  After every evaluation the
\* list holds at most 100 entries: it is the list before followed by the
\* entries the evaluation appended, and when that is more than 100 the
\* entries missing are the ones at the front, the rest keeping their order.
C25_AlertListTrimmed ==
  [][Evaluates =>
       LET n == Len(alerts')
           grown == Len(alerts) + Cardinality(RaisedNow)
           dropped == grown - n
           kept == Len(alerts) - dropped
       IN  /\ n <= 100
           /\ n = IF grown > 100 THEN 100 ELSE grown
           /\ \A i \in 1..kept : alerts'[i] = alerts[i + dropped]
           /\ {alerts'[i].id : i \in (kept + 1)..n} = RaisedNow
           /\ \A i \in (kept + 1)..n :
                alerts'[i].timestamp = cachedPowerwall'[1].timestamp
           /\ alertsFile' = alerts']_vars

\* from a file of 100 entries a poll appended three: the list still has
\* 100, starts with the fourth stored entry and ends with the new ones
C25_Witness ==
  /\ Len(samples) = 1
  /\ Len(alerts) = 100
  /\ alerts[1] = StoredAlert(4)
  /\ alerts[97] = StoredAlert(100)
  /\ {alerts[i].id : i \in 98..100} = {"battery-low", "grid-down", "high-load"}
  /\ alertsFile = alerts

(***************************************************************************)
(* What a poll records                                                     *)
(***************************************************************************)
\* the step completes a fetch with a reading, on either path
FetchSucceeds ==
  \E s \in Slots : \/ FinishScheduled(CfgReading, s)
                   \/ FinishOnDemand(CfgReading, s)

\* C26: one sample row and one history entry per successful fetch.  A step
\* that completes a fetch with a reading, scheduled or on demand, appends
\* one row to the sample table and one entry to the history, both with the
\* timestamp, powers and state of energy of that reading, and drops from
\* the history only entries older than 24 hours; every other step (a
\* failed fetch and a request answered from the cache among them) leaves
\* table and history as they are; no step changes or removes a row.
C26_OneSamplePerFetch ==
  [][/\ \A i \in 1..Len(samples) :
          i <= Len(samples') /\ samples'[i] = samples[i]
     /\ FetchSucceeds =>
          LET r == cachedPowerwall'[1]
              n == Len(history')
              dropped == Len(history) + 1 - n
          IN  /\ Len(samples') = Len(samples) + 1
              /\ samples'[Len(samples')] =
                   [ts |-> r.timestamp, solar_w |-> r.solar.power,
                    battery_w |-> r.battery.power, grid_w |-> r.grid.power,
                    load_w |-> r.load.power, battery_soe |-> r.battery.soe,
                    battery_status |-> r.battery.status]
              /\ n >= 1
              /\ dropped >= 0
              /\ \A i \in 1..dropped :
                   (now' - history[i].timestamp) \div 86400000 >= 1
              /\ \A i \in 1..(n - 1) : history'[i] = history[i + dropped]
              /\ history'[n] =
                   [timestamp |-> r.timestamp, grid |-> r.grid.power,
                    battery |-> r.battery.power, solar |-> r.solar.power,
                    load |-> r.load.power, soe |-> r.battery.soe]
     /\ ~FetchSucceeds => UNCHANGED <<samples, history>>]_vars

\* a fetch on demand and a scheduled one succeeded, in this order, and a
\* request was answered: two rows and two entries, in the order of the polls
C26_Witness ==
  /\ Len(samples) = 2
  /\ Len(history) = 2
  /\ samples[1].ts < samples[2].ts
  /\ history[1].timestamp = samples[1].ts
  /\ history[2].timestamp = samples[2].ts
  /\ lastUpdatePowerwall = Some(samples[1].ts)
  /\ httpResponse = Some([status |-> 200, body |-> cachedPowerwall])
  /\ fetches = [s \in Slots |-> IdleSlot]

\* C27: the freshness cache of GET /api/powerwall.  A request that arrives
\* less than 15 seconds after the cached reading was stored, by either
\* path, is answered with that reading and starts no fetch, appends
\* nothing and writes to no subscriber; any other request starts one fetch.
C27_FreshReadingAnswersRequest ==
  [][PowerwallRequest(CfgReading) =>
       IF cachedPowerwall # None /\ now - cachedPowerwall[1].timestamp < 15000
         THEN /\ fetches' = fetches
              /\ httpResponse' = Some([status |-> 200, body |-> cachedPowerwall])
              /\ UNCHANGED <<samples, history, alerts, sseClients>>
              /\ sent' = <<>>
         ELSE Cardinality({s \in Slots : fetches'[s].pc # "idle"})
                = Cardinality(InFlight) + 1]_vars

(***************************************************************************)
(* The alert list and the history as the endpoints return them, after a    *)
(* restart two days after the last poll                                    *)
(***************************************************************************)
QueriesClients == 1
QueriesSlots == 1
QueriesPolls == 2
QueriesTicks == 1

\* the process starts at midnight of day 3
QueriesStart == 3 * MsPerDay

\* the row of the sample table that belongs to StoredSample(t)
StoredRow(t) ==
  [ts |-> t, solar_w |-> 400, battery_w |-> -10, grid_w |-> 980,
   load_w |-> 990, battery_soe |-> Pct(50), battery_status |-> "standby"]

\* The last poll before the restart was two days ago: its entry is in the
\* history file and its row in the sample table, where it counts as one of
\* the QueriesPolls polls.  The alerts file held
\* nothing or 22 entries.  A poll raises grid-down and high-load.
CfgQueries ==
  [clients |-> 1..QueriesClients, slots |-> 1..QueriesSlots,
   maxPolls |-> QueriesPolls, horizonTicks |-> QueriesTicks,
   observe |-> {"http"},
   start |-> QueriesStart,
   histories |-> {<<StoredSample(QueriesStart - 2 * MsPerDay)>>},
   sampleLoads |-> {<<StoredRow(QueriesStart - 2 * MsPerDay)>>},
   alertLoads |-> {<<>>, StoredAlerts(22)},
   limits |-> {None, Some(0), Some(2), Some(30)},
   ranges |-> {None, Some("24h"), Some("7d"), Some("30d")},
   steps |-> {PollIntervalMs},
   aggs |-> {Agg(0, 50000, 1000000, 2000000)},
   soes |-> {Pct(50)},
   extras |-> {ExtrasOk},
   temps |-> {700},
   settingsBodies |-> {[batteryLow |-> 19]},
   clearIds |-> {"grid-down"}]

SpecQueries == Init(CfgQueries) /\ [][NextQueries(CfgQueries)]_vars

\* C28: getAlerts(limit).  GET /api/alerts with limit n >= 0 answers the n
\* most recently appended entries of the list (all of them if the list
\* has fewer), the most recent first; without a limit n is 20.
C28_AlertsMostRecentFirst ==
  [][GetAlerts(CfgQueries) =>
       LET a == httpResponse'[1]
           n == IF a.query = None THEN 20 ELSE a.query[1]
           k == IF n < Len(alerts) THEN n ELSE Len(alerts)
       IN  /\ Len(a.body) = k
           /\ \A i \in 1..k : a.body[i] = alerts[Len(alerts) - i + 1]]_vars

\* C29: getHistory(range).  GET /api/admin/history with range 24h, 7d or
\* 30d (24h without a range) answers an entry for every recorded sample
\* that is less than 1, 7 or 30 days old, and for no older one.
C29_HistoryCoversRange ==
  [][GetHistory(CfgQueries) =>
       LET a == httpResponse'[1]
           days == CASE a.query = Some("7d") -> 7
                     [] a.query = Some("30d") -> 30
                     [] OTHER -> 1
           InRange(ts) == (now - ts) \div 86400000 < days
       IN  /\ \A i \in 1..Len(samples) :
                InRange(samples[i].ts) =>
                  \E j \in 1..Len(a.body) :
                    /\ a.body[j].timestamp = samples[i].ts
                    /\ a.body[j].grid = samples[i].grid_w
                    /\ a.body[j].load = samples[i].load_w
           /\ \A j \in 1..Len(a.body) : InRange(a.body[j].timestamp)]_vars

(***************************************************************************)
(* The events of the push channel                                          *)
(***************************************************************************)
EventsClients == 1
EventsSlots == 1
EventsPolls == 1
EventsTicks == 1

\* The hourly timer is due at the first poll tick; a poll raises the
\* battery-low alert; index.html changes between two contents.
CfgEvents ==
  [clients |-> 1..EventsClients, slots |-> 1..EventsSlots,
   maxPolls |-> EventsPolls, horizonTicks |-> EventsTicks,
   observe |-> {"writes", "http"},
   start |-> StartBeforeMidnight + PollIntervalMs,
   hourIn |-> PollIntervalMs,
   codeHash |-> "0f3a9c1e",
   codeHashes |-> {"0f3a9c1e", "7b22d40a"},
   steps |-> {PollIntervalMs},
   aggs |-> {Agg(0, 50000, 1000000, 2000000)},
   soes |-> {Pct(20)},
   extras |-> {ExtrasOk},
   temps |-> {700},
   settingsBodies |-> {[batteryLow |-> 19]},
   clearIds |-> {"grid-down"}]

SpecEvents == Init(CfgEvents) /\ [][NextEvents(CfgEvents)]_vars

EventTypes == {"powerwall", "alert", "analytics", "code-update"}

\* C30: every event written to a subscriber, whichever handler wrote it, is
\* a record of exactly the fields type and data, and its type is powerwall,
\* alert, analytics or code-update.
C30_EventShape ==
  \A i \in 1..Len(sent) :
    sent[i].delivered # <<>> =>
      /\ DOMAIN sent[i].event = {"type", "data"}
      /\ sent[i].event.type \in EventTypes

(***************************************************************************)
(* Deregistration                                                          *)
(***************************************************************************)
\* how often x occurs in s
Occurrences(s, x) == Cardinality({i \in 1..Len(s) : s[i] = x})

\* s without x, order kept
Without(s, x) == LET Keep(y) == y # x IN SelectSeq(s, Keep)

\* C31: a closed connection is deregistered and only it.  When a connection
\* closes, the subscriber array afterwards is the array before without that
\* connection (also when a failed write had removed it already: then the
\* array is unchanged); a registered handle is an open connection and occurs
\* once; every write recorded went to a connection that is open.
C31_CloseDeregisters ==
  /\ [](\A c \in Range(sseClients) : c \in conns /\ Occurrences(sseClients, c) = 1)
  /\ [](\A i \in 1..Len(sent) : Range(sent[i].delivered) \subseteq conns)
  /\ [][\A c \in conns \ conns' : sseClients' = Without(sseClients, c)]_vars

\* the first connection has closed and a later one is still registered
C31_Witness ==
  /\ 1 \notin conns
  /\ conns # {}
  /\ Range(sseClients) = conns

\* a connection that a failed write removed is still open, next to a
\* registered one: its close finds no index
C31_WitnessAlreadyRemoved ==
  \E c \in conns : c \notin Range(sseClients) /\ Range(sseClients) # {}

(***************************************************************************)
(* The date of a baseline                                                  *)
(***************************************************************************)
TzHours == 1

\* offsets of the system's local time from UTC, in ms
TzOffsets == {h * HourMs : h \in (0 - TzHours)..TzHours}

\* the calendar date of instant t on a clock that is off ms ahead of UTC,
\* as a day number
LocalDateKey(t, off) == (t + off) \div MsPerDay

\* C32: the date key of a poll is the local calendar date.  Whatever the
\* offset of local time from UTC, a poll that completes looks up and
\* creates its baseline under the local date of that moment.
C32_KeyIsLocalDate ==
  [][samples' # samples =>
       \A off \in TzOffsets :
         deltaLog'[Len(deltaLog')].date = LocalDateKey(now, off)]_vars

(***************************************************************************)
(* The window of a roll-up                                                 *)
(***************************************************************************)
WindowClients == 1
WindowSlots == 1
WindowPolls == 2
WindowTicks == 1

\* the first firing of the hourly timer
WindowHour == StartBeforeMidnight + 2 * PollIntervalMs

\* a history entry of a previous run with other values than a poll's
OlderSample(t) ==
  [timestamp |-> t, grid |-> 1200, battery |-> 300, solar |-> 0,
   load |-> 1500, soe |-> 481]

\* The hourly timer is due at the first poll tick.  The history file held
\* nothing, or one sample that is exactly one hour old at that tick and one
\* ten seconds younger.  The gateway reports 54.6 % or 54.3 %.
CfgWindow ==
  [clients |-> 1..WindowClients, slots |-> 1..WindowSlots,
   maxPolls |-> WindowPolls, horizonTicks |-> WindowTicks,
   observe |-> {"writes"},
   start |-> StartBeforeMidnight + PollIntervalMs,
   hourIn |-> PollIntervalMs,
   histories |-> {<<>>, <<StoredSample(WindowHour - HourMs),
                          OlderSample(WindowHour - HourMs + PollIntervalMs)>>},
   steps |-> {PollIntervalMs},
   aggs |-> {Instant(-200, 9900, 110)},
   soes |-> {546, 543},
   extras |-> {ExtrasOk},
   temps |-> {700},
   settingsBodies |-> {[batteryLow |-> 12]},
   clearIds |-> {"grid-down"}]

SpecWindow == Init(CfgWindow) /\ [][NextRollup(CfgWindow)]_vars

PowerChannels == {"grid", "solar", "load"}

\* m is the largest (up = TRUE) or smallest value of field f over the
\* history samples of the hour that ends now
ExtremeInWindow(m, f, up) ==
  /\ \E i \in InLastHour : history[i][f] = m
  /\ \A i \in InLastHour : IF up THEN history[i][f] <= m ELSE history[i][f] >= m

\* the entry of a non-empty roll-up counts
\* the samples of (now - 1h, now], its max and min are the extremes over
\* them, and the averages of the power channels lie between min and max
RollupOverWindow(e) ==
  /\ e.grid.samples = Cardinality(InLastHour)
  /\ \A ch \in PowerChannels :
       /\ ExtremeInWindow(e[ch].max, ch, TRUE)
       /\ ExtremeInWindow(e[ch].min, ch, FALSE)
       /\ e[ch].min <= e[ch].avg
       /\ e[ch].avg <= e[ch].max
  /\ ExtremeInWindow(e.battery.maxSoe, "soe", TRUE)
  /\ ExtremeInWindow(e.battery.minSoe, "soe", FALSE)

\* C33 as stated: a non-empty roll-up is computed from exactly the samples
\* of (now - 1h, now], and min <= avg <= max holds for grid, solar, load and
\* the state of energy.
C33_RollupWithinMinMax ==
  [][(HourlyFires /\ InLastHour # {}) =>
       LET e == analytics'[Len(analytics')]
       IN  /\ RollupOverWindow(e)
           /\ e.battery.minSoe <= Pct(e.battery.avgSoe)
           /\ Pct(e.battery.avgSoe) <= e.battery.maxSoe]_vars

\* What the code keeps of C33: a non-empty roll-up is computed from exactly
\* the samples of (now - 1h, now]; min <= avg <= max holds for grid, solar
\* and load, whose samples are whole watts; avgSoe is the average rounded
\* to a whole percent while minSoe and maxSoe are not rounded, so
\* minSoe - 0.5 < avgSoe <= maxSoe + 0.5.
C33_RollupWithinHalfPercent ==
  [][(HourlyFires /\ InLastHour # {}) =>
       LET e == analytics'[Len(analytics')]
       IN  /\ RollupOverWindow(e)
           /\ 2 * e.battery.minSoe - SoeScale < 2 * Pct(e.battery.avgSoe)
           /\ 2 * Pct(e.battery.avgSoe) <= 2 * e.battery.maxSoe + SoeScale]_vars

\* the timer has fired over a window of three samples, the stored one of
\* exactly an hour ago left out
C33_Witness ==
  /\ nextHour = now + HourMs
  /\ Len(history) = 4
  /\ analytics # <<>>
  /\ analytics[Len(analytics)].hour = ToISOString(now)
  /\ analytics[Len(analytics)].grid.samples = 3
  /\ analytics[Len(analytics)].battery.minSoe = 481
  /\ analytics[Len(analytics)].battery.maxSoe = 546

(***************************************************************************)
(* The analytics endpoint                                                  *)
(***************************************************************************)
AnalyticsClients == 1
AnalyticsSlots == 1
AnalyticsPolls == 1
AnalyticsTicks == 1

\* The analytics file held nothing, 30 entries, 200 entries or the full
\* 720.  The range is missing, one of the three known ones, unknown or
\* empty.
CfgAnalytics ==
  [clients |-> 1..AnalyticsClients, slots |-> 1..AnalyticsSlots,
   maxPolls |-> AnalyticsPolls, horizonTicks |-> AnalyticsTicks,
   observe |-> {"http"},
   start |-> StartBeforeMidnight,
   analyticsLoads |-> {<<>>, StoredAnalytics(30, StartBeforeMidnight),
                       StoredAnalytics(200, StartBeforeMidnight),
                       StoredAnalytics(AnalyticsKept, StartBeforeMidnight)},
   ranges |-> {None, Some("24h"), Some("7d"), Some("30d"), Some("1y"), Some("")},
   steps |-> {PollIntervalMs},
   aggs |-> {Agg(0, 50000, 1000000, 2000000)},
   soes |-> {Pct(50)},
   extras |-> {ExtrasOk},
   temps |-> {700},
   settingsBodies |-> {[batteryLow |-> 19]},
   clearIds |-> {"grid-down"}]

SpecAnalytics == Init(CfgAnalytics) /\ [][NextAnalytics(CfgAnalytics)]_vars

\* C34: the analytics endpoint answers with the tail of the list.  The
\* answer to a request with range 24h, 7d or 30d is the last 24, 168 or 720
\* entries of the analytics list, or the whole list if it is shorter, in
\* the order of the list; a missing, empty or unknown range is answered as
\* 24h.
C34_AnalyticsTail ==
  [][GetAnalytics(CfgAnalytics) =>
       LET a == httpResponse'[1]
           n == CASE a.query = <<"7d">> -> 168
                  [] a.query = <<"30d">> -> 720
                  [] OTHER -> 24
           k == IF Len(analytics) < n THEN Len(analytics) ELSE n
       IN  /\ a.route = "analytics"
           /\ Len(a.body) = k
           /\ \A i \in 1..k : a.body[i] = analytics[Len(analytics) - k + i]]_vars

\* a request for 7d was answered with the last 168 of 200 entries
C34_Witness ==
  /\ httpResponse # None
  /\ httpResponse[1].route = "analytics"
  /\ httpResponse[1].query = Some("7d")
  /\ Len(analytics) = 200
  /\ Len(httpResponse[1].body) = 168
  /\ httpResponse[1].body[1] = analytics[33]

(***************************************************************************)
(* The two paths of a poll                                                 *)
(***************************************************************************)
\* C35: a successful poll leaves the same state on either path.  Whether
\* the timer or a request started it, a poll that completes with reading r
\* leaves r in the cache with the freshness timestamp of the moment the
\* poll was started, the history and the sample table extended by r, the
\* alert list as the evaluation of r leaves it, and has sent the alert
\* events followed by the powerwall event of r.
C35_PathsLeaveSameState ==
  [][\A s \in Slots :
       (FinishScheduled(CfgReading, s) \/ FinishOnDemand(CfgReading, s)) =>
         LET r == cachedPowerwall'[1]
             ca == CheckAlerts(r, cachedTemps, settingsAlerts, now, alerts,
                               sseClients, broken, alertHist)
             b == BroadcastUpdate(ca.clients, broken,
                                  [type |-> "powerwall", data |-> r])
         IN  /\ lastUpdatePowerwall' = Some(fetches[s].began)
             /\ history' = PushHistory(history, r, now)
             /\ samples' = Append(samples, SampleRow(r))
             /\ alerts' = ca.alerts
             /\ sent' = Append(ca.sent, b.rec)]_vars

(***************************************************************************)
(* The order of the steps of a poll                                        *)
(***************************************************************************)
\* the step completes a fetch with a reading, among overlapping fetches
PollCompletes ==
  \E s \in Slots : \/ FinishScheduled(CfgFanout, s)
                   \/ FinishOnDemand(CfgFanout, s)

\* C36: cache and records first, then the alerts, then the reading.  A
\* poll that completes has, when its writes begin, the reading in the cache,
\* in the last history entry and in the last sample row and the raised
\* alerts in the alert list; its writes are the alert events followed by
\* one powerwall event, the last write, which carries the cached reading.
\* The cached reading is never replaced by an older one, and a connection
\* that subscribes is sent the cached reading, so never one older than a
\* reading broadcast before.
C36_PollOrder ==
  [][/\ PollCompletes =>
          LET r == cachedPowerwall'[1]
              n == Len(sent')
          IN  /\ history'[Len(history')].timestamp = r.timestamp
              /\ samples'[Len(samples')].ts = r.timestamp
              /\ n >= 1
              /\ sent'[n].via = "broadcast"
              /\ sent'[n].event = [type |-> "powerwall", data |-> r]
              /\ \A i \in 1..(n - 1) :
                   /\ sent'[i].via = "broadcast"
                   /\ sent'[i].event.type = "alert"
                   /\ \E k \in 1..Len(alerts') : alerts'[k] = sent'[i].event.data
     /\ (cachedPowerwall # None /\ cachedPowerwall' # cachedPowerwall) =>
          /\ PollCompletes
          /\ cachedPowerwall'[1].timestamp >= cachedPowerwall[1].timestamp
     /\ (conns' # conns /\ conns \subseteq conns' /\ cachedPowerwall # None) =>
          /\ Len(sent') = 1
          /\ sent'[1].via = "direct"
          /\ sent'[1].event = [type |-> "powerwall", data |-> cachedPowerwall[1]]]_vars

\* a poll raised grid-down with a subscriber connected: the alert event
\* and then the powerwall event were written to it
C36_Witness ==
  /\ Len(sent) = 2
  /\ sent[1].event.type = "alert"
  /\ sent[2].event.type = "powerwall"
  /\ sent[1].delivered # <<>>
  /\ \E c \in Range(sent[1].delivered) : c \in Range(sent[2].delivered)

(***************************************************************************)
(* Subscribing                                                             *)
(***************************************************************************)
\* C37: a new subscriber is registered and sent the cached reading, alone.
\* A step that opens a connection appends it to the subscriber array and
\* changes nothing else of the array; with a reading in the cache it writes
\* one powerwall event carrying that reading, to the new connection only;
\* with an empty cache it writes nothing.  A timer tick that finds a
\* subscriber registered starts a fetch.
C37_SubscribeSendsCacheToNewOnly ==
  [][/\ \A c \in conns' \ conns :
          /\ sseClients' = Append(sseClients, c)
          /\ UNCHANGED <<cachedPowerwall, fetches, nextTick>>
          /\ IF cachedPowerwall # None
               THEN /\ Len(sent') = 1
                    /\ sent'[1].event =
                         [type |-> "powerwall", data |-> cachedPowerwall[1]]
                    /\ sent'[1].delivered = <<c>>
                    /\ sent'[1].failed = {}
               ELSE sent' = <<>>
     /\ (nextTick' # nextTick /\ sseClients # <<>>) =>
          \E s \in Slots : /\ fetches[s].pc = "idle"
                           /\ fetches'[s].pc = "login"
                           /\ fetches'[s].kind = "sched"]_vars

\* a second connection has just subscribed while a reading was cached: the
\* one write went to it
C37_Witness ==
  /\ Len(sseClients) = 2
  /\ cachedPowerwall # None
  /\ Len(sent) = 1
  /\ sent[1].via = "direct"
  /\ sent[1].delivered = <<sseClients[2]>>
  /\ sent[1].event.data = cachedPowerwall[1]

(***************************************************************************)
(* The poll that creates a baseline                                        *)
(***************************************************************************)
\* C38: the first poll of a date starts the day at zero.  For the poll that
\* produced the cached reading, if it created the baseline of its date:
\* the baseline is the counters it read, the four day-deltas are 0, every
\* field of the daily breakdown is 0, and the reading's self-powered
\* percentage is the instantaneous one of this poll: 0 for a load of at
\* most 0 W, otherwise (load - max(0, grid)) / load * 100 rounded and
\* clamped to 0..100.
C38_BaselinePollStartsAtZero ==
  (cachedPowerwall # None /\ deltaLog # <<>> /\ LastDelta.created) =>
    LET r == cachedPowerwall[1]
        load == r.load.power
        grid == r.grid.power
        gridSupplied == IF grid > 0 THEN grid ELSE 0
    IN  /\ baselines[LastDelta.date] = LastDelta.cum
        /\ \A ch \in Channels : LastDelta.d[ch] = 0
        /\ \A f \in DOMAIN r.dailyBreakdown : r.dailyBreakdown[f] = 0
        /\ DOMAIN r.dailyBreakdown =
             {"solarPct", "batteryPct", "gridPct", "solarKwh", "batteryKwh",
              "gridKwh", "loadKwh"}
        /\ load <= 0 => r.selfPoweredPercent = 0
        /\ load > 0 =>
             \E q \in -200..200 :
               /\ IsRounded(q, (load - gridSupplied) * 100, load)
               /\ r.selfPoweredPercent =
                    IF q < 0 THEN 0 ELSE IF q > 100 THEN 100 ELSE q

\* the first poll after midnight read higher counters than the poll of the
\* day before and created the new date's baseline from them
C38_Witness ==
  /\ cachedPowerwall # None
  /\ Len(deltaLog) = 2
  /\ deltaLog[1].date # deltaLog[2].date
  /\ deltaLog[2].created
  /\ deltaLog[2].cum.load_imported_wh > deltaLog[1].cum.load_imported_wh
  /\ deltaLog[2].d.dayLoad = 0
  /\ cachedPowerwall[1].load.power > 0
  /\ Cardinality(DOMAIN baselines) = 2

(***************************************************************************)
(* Updating a subset of the thresholds                                     *)
(***************************************************************************)
SettingsClients == 1
SettingsSlots == 1
SettingsPolls == 1
SettingsTicks == 1

\* Each path is given a body that names one threshold and one that names
\* two; the admin path also a body without an alerts member.
CfgSettings ==
  [clients |-> 1..SettingsClients, slots |-> 1..SettingsSlots,
   maxPolls |-> SettingsPolls, horizonTicks |-> SettingsTicks,
   observe |-> {"alerts"},
   start |-> StartBeforeMidnight,
   steps |-> {PollIntervalMs},
   aggs |-> {Agg(0, 50000, 1000000, 2000000)},
   soes |-> {Pct(20)},
   extras |-> {ExtrasOk},
   temps |-> {700},
   settingsBodies |-> {[batteryLow |-> 12], [highLoad |-> 4000, highTemp |-> 90]},
   adminBodies |-> {[alerts |-> [batteryLow |-> 10]],
                    [alerts |-> [highLoad |-> 6000, lowTemp |-> 45]],
                    [theme |-> "light"]},
   clearIds |-> {"grid-down"}]

SpecSettings == Init(CfgSettings) /\ [][NextSettings(CfgSettings)]_vars

ThresholdNames ==
  {"batteryLow", "batteryHigh", "gridDown", "highLoad", "highTemp", "lowTemp"}

\* the thresholds a request of either path may name
NamedThresholds ==
  CfgSettings.settingsBodies
    \cup {b.alerts : b \in {x \in CfgSettings.adminBodies : "alerts" \in DOMAIN x}}

\* C39: an update changes the named thresholds only.  Every step that
\* changes the thresholds sets the thresholds some request names to the
\* values it gives and keeps every other threshold at its value; all six
\* thresholds are defined at all times.
C39_UpdateKeepsOtherThresholds ==
  /\ [](DOMAIN settingsAlerts = ThresholdNames)
  /\ [][settingsAlerts' # settingsAlerts =>
          \E named \in NamedThresholds :
            \A k \in ThresholdNames :
              /\ k \in DOMAIN settingsAlerts'
              /\ settingsAlerts'[k] =
                   IF k \in DOMAIN named THEN named[k] ELSE settingsAlerts[k]]_vars

(***************************************************************************)
(* Force refresh                                                           *)
(***************************************************************************)
\* C40: a force-refresh notifies everybody or changes nothing.  A POST
\* /api/force-refresh either is answered 200 with success and the number of
\* registered subscribers, after one write to each of them, or fails and
\* leaves codeVersion (hash, changed, timestamp) as it was.
C40_ForceRefreshAllOrNothing ==
  [][ForceRefresh(CfgEvents) =>
       LET a == httpResponse'[1]
       IN  \/ /\ a.status = 200
              /\ a.body.success
              /\ a.body.clientsNotified = Len(sseClients)
              /\ Len(sent') = 1
              /\ sent'[1].delivered = sseClients
           \/ /\ a.status # 200
              /\ UNCHANGED codeVersion]_vars

====
